---- MODULE Spec2Model ----
(***************************************************************************)
(* State-machine model of Dmf_RequestTarget.c: creation, sending,          *)
(* cancellation, completion and reuse of WDFREQUESTs sent to a WDFIOTARGET.*)
(*                                                                         *)
(* A WDFREQUEST is a handle in Requests; a handle whose object has been    *)
(* freed may be handed out again by WdfRequestCreate (the comment at       *)
(* Dmf_RequestTarget.c:74-77).  WDF object lifetime is modelled by a       *)
(* reference count: creation holds one reference, WdfCollectionAdd holds   *)
(* one per entry, WdfObjectReference adds one, WdfObjectDelete marks the   *)
(* object deleted and drops the creation reference; the memory is freed    *)
(* when the count reaches zero.                                            *)
(***************************************************************************)
EXTENDS Integers, Sequences, FiniteSets, TLC

\* Number of WDFREQUEST handles the framework can hand out.
MaxRequests == 1
\* Largest value g_ContinuousRequestTargetUniqueId may reach in the model.
MaxUniqueId == 3
\* Number of contexts DmfModuleBufferPoolContext can lend at once.
MaxBorrowed == 2
\* Number of DMF_RequestTarget_Cancel calls that may be in progress at once.
MaxCancels == 1
\* Largest byte count the target reports (WdfRequestGetInformation), and the
\* largest value the caller's BytesWritten variable may hold beforehand.
MaxBytes == 1
\* Largest buffer size, in bytes, of a WDFMEMORY in a completion.
MaxLength == 3
\* Number of DMF_RequestTarget_ReuseDelete calls that may be in progress at once.
MaxDeletes == 2
\* Number of preallocated buffers of DmfModuleQueuedWorkitemSingle
\* (BufferQueueConfig.SourceSettings.BufferCount), scaled to the number of
\* requests of the model.
MaxQueued == 1

\* The NULL handle (request = NULL).
NoRequest == 0

Requests == 1..MaxRequests
Tokens == 0..MaxUniqueId

VARIABLES
    g_ContinuousRequestTargetUniqueId,  \* the global unique-id counter
    PendingAsynchronousRequests,        \* WDFCOLLECTION: sequence of handles
    PendingReuseRequests,               \* WDFCOLLECTION: sequence of handles
    req,                                \* per handle: object state, UNIQUE_REQUEST context, call position
    sends,                              \* one record per accepted send whose completion has not finished
    cancels,                            \* DMF_RequestTarget_Cancel calls between lookup and cancel
    queue,                              \* DmfModuleQueuedWorkitemSingle: deferred completions (send ids)
    BufferPoolBorrowed,                 \* contexts taken from DmfModuleBufferPoolContext and not yet put back
    ReferenceCount,                     \* DMF_ModuleReference count
    ModuleState,                        \* Opened / Closing / ClosingReuse / Closed
    PassiveLevel,                       \* DMF_IsModulePassiveLevel(DmfModule)
    issued,                             \* history: every unique id generated, in order
    completed,                          \* history: cancel tokens of the sends whose completion has finished
    ret,                                \* history: the call that returned in the last step
    lock,                               \* history: how the last step used DMF_ModuleLock
    IoTarget,                           \* moduleContext->IoTarget: "NULL" or the WDFIOTARGET
    RequestType,                        \* SingleAsynchronousRequestType of the completion at hand
    CompletionParams,                   \* WDF_REQUEST_COMPLETION_PARAMS of the completion at hand
    Arguments,                          \* the buffers and sizes handed to the Client's callback
    deletes                             \* DMF_RequestTarget_ReuseDelete calls between lookup and removal: the request each acquired

\* The state of one instance of the ScheduledTask Module (Dmf_ScheduledTask.c).
VARIABLES
    moduleConfig,                       \* DMF_CONFIG_ScheduledTask: ExecuteWhen, ExecutionMode
    moduleContext,                      \* DMF_CONTEXT_ScheduledTask: the flags and the counter
    Timer,                              \* the WDFTIMER: "stopped" or "pending"
    DeferredOnDemand,                   \* the on-demand WDFWORKITEM: queued, running
    DmfModuleRundown,                   \* the DMF_Rundown guard: "started" or "ended"
    power,                              \* the device: "released", "Dx" or "D0"
    callers,                            \* ExecuteNowDeferred[Ex] calls that incremented the counter to 1 and have not returned
    cancelling,                         \* the DMF_ScheduledTask_Cancel or _Close call in progress
    acceptedCalls,                      \* deferred calls that returned STATUS_SUCCESS and no handler iteration has matched
    last                                \* what the last ScheduledTask step did

\* The variables of the RequestTarget Module.
requestTarget == <<g_ContinuousRequestTargetUniqueId, PendingAsynchronousRequests,
          PendingReuseRequests, req, sends, cancels, queue, BufferPoolBorrowed,
          ReferenceCount, ModuleState, PassiveLevel, issued, completed, ret, lock,
          IoTarget, RequestType, CompletionParams, Arguments, deletes>>

\* The variables of the ScheduledTask Module.
scheduledTask == <<moduleConfig, moduleContext, Timer, DeferredOnDemand, DmfModuleRundown,
                   power, callers, cancelling, acceptedCalls, last>>

vars == <<requestTarget, scheduledTask>>

\* The variables of the buffer extraction of one completion.
extraction == <<RequestType, CompletionParams, Arguments>>

-----------------------------------------------------------------------------
\* Sequence helpers (WDFCOLLECTION is an ordered list that allows duplicates).

IndexOf(seq, x) ==
    IF \E i \in 1..Len(seq) : seq[i] = x
    THEN CHOOSE i \in 1..Len(seq) : seq[i] = x /\ \A j \in 1..(i - 1) : seq[j] # x
    ELSE 0

RemoveAt(seq, i) ==
    [j \in 1..(Len(seq) - 1) |-> IF j < i THEN seq[j] ELSE seq[j + 1]]

Count(seq, x) == Cardinality({i \in 1..Len(seq) : seq[i] = x})

-----------------------------------------------------------------------------
\* WDF object lifetime.

FreeRequest ==
    [kind |-> "free", deleted |-> FALSE, refCount |-> 0,
     UniqueRequestIdCancel |-> 0, UniqueRequestIdReuse |-> 0,
     RequestInUse |-> FALSE, pc |-> "none", wantCancel |-> FALSE,
     evt |-> FALSE, target |-> "none"]

\* WdfRequestCreate with a zero-initialised UNIQUE_REQUEST context.
WdfRequestCreate(rq, r, kind) ==
    [rq EXCEPT ![r] = [FreeRequest EXCEPT !.kind = kind, !.refCount = 1]]

WdfObjectReference(rq, r) == [rq EXCEPT ![r].refCount = @ + 1]

WdfObjectDereference(rq, r) ==
    IF rq[r].refCount <= 1
    THEN [rq EXCEPT ![r] = FreeRequest]
    ELSE [rq EXCEPT ![r].refCount = @ - 1]

WdfObjectDelete(rq, r) ==
    WdfObjectDereference([rq EXCEPT ![r].deleted = TRUE], r)

\* A send call returns: its position and its arguments are gone.
CallReturns(rq, r) ==
    [rq EXCEPT ![r].pc = "none", ![r].wantCancel = FALSE, ![r].evt = FALSE,
               ![r].target = "none"]

\* The handle WdfRequestCreate returns: handles are interchangeable, the
\* lowest free one stands for any of them.
FreeHandles == {r \in Requests : req[r].kind = "free"}
NewHandle == CHOOSE r \in FreeHandles : \A q \in FreeHandles : r <= q

-----------------------------------------------------------------------------
\* History record of a returned call.

\* op: the Method; status: its return value; req: the request it worked on;
\* token: the cancel/reuse token it returned; ctx: whether it had borrowed a
\* context from the buffer pool.  For DMF_RequestTarget_Cancel, called with
\* a token a send call had returned: wrongSend: the request it handed to the
\* target was at the target for another send; freed: that request's memory
\* had been freed; late: the target had completed the token's send before the
\* call; done: the completion of the token's send had finished before the call.
\* For DMF_RequestTarget_SendSynchronously, bytes: the caller's *BytesWritten
\* after the call.
Ret(op, status, r, token, ctx) ==
    [op |-> op, status |-> status, req |-> r, token |-> token, ctx |-> ctx,
     wrongSend |-> FALSE, freed |-> FALSE, late |-> FALSE, done |-> FALSE,
     bytes |-> 0]

NoRet == Ret("none", "none", NoRequest, 0, FALSE)

\* A Cancel call in progress whose request's memory was freed meanwhile.
MarkDangling(cs, rq) ==
    [i \in 1..Len(cs) |->
        IF rq[cs[i].req].kind = "free" THEN [cs[i] EXCEPT !.dangling = TRUE] ELSE cs[i]]

-----------------------------------------------------------------------------
\* UniqueIdAllocator: InterlockedIncrement64(&g_ContinuousRequestTargetUniqueId)
\* returns the incremented value.

InterlockedIncrement64_Old(g) == g

InterlockedIncrement64(g) == g + 1

-----------------------------------------------------------------------------
\* Lifecycle guard: a reference-counted drain barrier.  DMF_ModuleReference
\* fails once closing has started, and the Close callback runs when every
\* reference has been given back.

\* A lifecycle guard that never refuses a reference before the Module is closed.
DMF_ModuleReference_Succeeds_WhileClosing == ModuleState # "Closed"

DMF_ModuleReference_Succeeds == ModuleState = "Opened"

DMF_ModuleReferencesDrained == ReferenceCount = 0

-----------------------------------------------------------------------------
\* DMF_ModuleLock.  The lock is taken and released inside the four registry
\* primitives and nowhere else; these are the calls each primitive makes
\* between DMF_ModuleLock and DMF_ModuleUnlock.

\* A lookup that cancels the request before it releases the lock.
DMF_ModuleLock_Calls_CancelInside(primitive) ==
    CASE primitive = "RequestTarget_PendingCollectionListAdd" ->
            {"WdfCollectionAdd"}
      [] primitive = "RequestTarget_PendingCollectionListSearchAndRemove" ->
            {"WdfCollectionGetItem", "WdfCollectionRemoveItem"}
      [] primitive = "RequestTarget_PendingCollectionListSearchAndReference" ->
            {"WdfCollectionGetItem", "WdfObjectReferenceWithTag",
             "WdfRequestCancelSentRequest"}
      [] primitive = "RequestTarget_PendingCollectionReuseListSearch" ->
            {"WdfCollectionGetItem"}

DMF_ModuleLock_Calls(primitive) ==
    CASE primitive = "RequestTarget_PendingCollectionListAdd" ->
            {"WdfCollectionAdd"}
      [] primitive = "RequestTarget_PendingCollectionListSearchAndRemove" ->
            {"WdfCollectionGetItem", "WdfCollectionRemoveItem"}
      [] primitive = "RequestTarget_PendingCollectionListSearchAndReference" ->
            {"WdfCollectionGetItem", "WdfObjectReferenceWithTag"}
      [] primitive = "RequestTarget_PendingCollectionReuseListSearch" ->
            {"WdfCollectionGetItem"}

\* The calls into the WDFIOTARGET and into the Client.
TargetOrClientCalls ==
    {"RequestTarget_FormatRequestForRequestType", "WdfRequestSend",
     "WdfRequestCancelSentRequest", "WdfRequestGetStatus",
     "EvtRequestTargetSingleAsynchronousRequest"}

\* What a step records: the target or Client calls it made with the lock held
\* (primitives: the registry primitives the step went through), and the
\* collections and UNIQUE_REQUEST fields of requests other threads can reach
\* that it read or wrote without the lock.
LockUse(primitives, unlocked) ==
    [calls |-> UNION {DMF_ModuleLock_Calls(p) : p \in primitives} \cap TargetOrClientCalls,
     unlocked |-> unlocked]

-----------------------------------------------------------------------------
\* The ScheduledTask Module (Dmf_ScheduledTask.c): state after DMF_ScheduledTask_Open.

\* Bounds of the ScheduledTask part.
MaxPendingCalls == 3
MaxCallers == 2

\* ScheduledTask_Result_Type: what the Client's callback may return.
ScheduledTask_Result_Type ==
    {"Success", "SuccessButTryAgain", "Fail", "FailButTryAgain"}

\* The configurations exercised (PersistenceType is NotPersistentAcrossReboots).
ScheduledTask_Configurations ==
    [ExecuteWhen : {"D0Entry", "PrepareHardware", "Other"},
     ExecutionMode : {"Deferred", "Immediate"}]

\* DMF_ScheduledTask_ExecuteNowDeferred's CallbackContext is _In_opt_.
CallbackContexts == {"NULL", "CallbackContext"}

\* What a ScheduledTask step records: the operation, whether it executed the
\* Client's callback and with which result, the accepted deferred call its
\* handler iteration matched, whether its DmfAsserts held, and its status.
NoStep ==
    [op |-> "none", ran |-> FALSE, workResult |-> "none", matched |-> "none",
     assertion |-> TRUE, status |-> "none"]

DMF_ScheduledTask_Open(config) ==
    /\ moduleConfig = config
    /\ moduleContext = [WorkIsCompleted |-> FALSE,
                        TimerIsStarted |-> FALSE,
                        DisableRetries |-> FALSE,
                        NumberOfPendingCalls |-> 0,
                        OnDemandCallbackContext |-> "NULL"]
    /\ Timer = "stopped"
    /\ DeferredOnDemand = [queued |-> FALSE, running |-> FALSE]
    /\ DmfModuleRundown = "started"
    /\ power = "released"
    /\ callers = <<>>
    /\ cancelling = "none"
    /\ acceptedCalls = <<>>
    /\ last = NoStep

\* The ScheduledTask instance of the specifications that exercise RequestTarget only.
ScheduledTask_Idle ==
    DMF_ScheduledTask_Open([ExecuteWhen |-> "Other", ExecutionMode |-> "Deferred"])

-----------------------------------------------------------------------------
Init ==
    /\ g_ContinuousRequestTargetUniqueId = 0
    /\ PendingAsynchronousRequests = <<>>
    /\ PendingReuseRequests = <<>>
    /\ req = [r \in Requests |-> FreeRequest]
    /\ sends = <<>>
    /\ cancels = <<>>
    /\ queue = <<>>
    /\ BufferPoolBorrowed = 0
    /\ ReferenceCount = 0
    /\ ModuleState = "Opened"
    /\ PassiveLevel \in BOOLEAN
    /\ issued = <<>>
    /\ completed = {}
    /\ ret = NoRet
    /\ lock = LockUse({}, {})
    /\ IoTarget = "WDFIOTARGET"
    /\ RequestType = "none"
    /\ CompletionParams = "none"
    /\ Arguments = <<>>
    /\ deletes = <<>>
    /\ ScheduledTask_Idle

-----------------------------------------------------------------------------
\* PendingRequestRegistry primitives.  Each runs under DMF_ModuleLock, so each
\* is one atomic evaluation; the result carries the updated collection and
\* request table.

\* WdfCollectionAdd can fail on allocation (fails = TRUE); on success the
\* collection holds a reference to the object.
RequestTarget_PendingCollectionListAdd(coll, rq, r, fails) ==
    IF fails
    THEN [ok |-> FALSE, coll |-> coll, rq |-> rq]
    ELSE [ok |-> TRUE, coll |-> Append(coll, r), rq |-> WdfObjectReference(rq, r)]

\* A scan that never finds the handle.
RequestTarget_PendingCollectionListSearchAndRemove_NoRemove(coll, rq, r) ==
    [found |-> FALSE, coll |-> coll, rq |-> rq]

\* Linear scan for the handle; the first matching entry is removed.
RequestTarget_PendingCollectionListSearchAndRemove(coll, rq, r) ==
    LET i == IF r = NoRequest THEN 0 ELSE IndexOf(coll, r) IN
    IF i = 0
    THEN [found |-> FALSE, coll |-> coll, rq |-> rq]
    ELSE [found |-> TRUE, coll |-> RemoveAt(coll, i), rq |-> WdfObjectDereference(rq, r)]

\* First entry of PendingAsynchronousRequests whose UniqueRequestIdCancel
\* equals the token; a reference is taken before the lock is released.
RequestTarget_PendingCollectionListSearchAndReference(coll, rq, token) ==
    LET hits == {i \in 1..Len(coll) : rq[coll[i]].UniqueRequestIdCancel = token} IN
    IF hits = {}
    THEN [found |-> FALSE, request |-> NoRequest, rq |-> rq]
    ELSE LET i == CHOOSE k \in hits : \A j \in hits : k <= j IN
         [found |-> TRUE, request |-> coll[i], rq |-> WdfObjectReference(rq, coll[i])]

\* The lookup without the RequestInUse test.
RequestTarget_PendingCollectionReuseListSearch_NoInUseTest(coll, rq, token) ==
    LET hits == {i \in 1..Len(coll) : rq[coll[i]].UniqueRequestIdReuse = token} IN
    IF hits = {}
    THEN [found |-> FALSE, request |-> NoRequest, rq |-> rq]
    ELSE LET i == CHOOSE k \in hits : \A j \in hits : k <= j IN
         [found |-> TRUE, request |-> coll[i],
          rq |-> [rq EXCEPT ![coll[i]].RequestInUse = TRUE]]

\* The lookup without the acquisition of the slot.
RequestTarget_PendingCollectionReuseListSearch_NoMark(coll, rq, token) ==
    LET hits == {i \in 1..Len(coll) : rq[coll[i]].UniqueRequestIdReuse = token} IN
    IF hits = {}
    THEN [found |-> FALSE, request |-> NoRequest, rq |-> rq]
    ELSE LET i == CHOOSE k \in hits : \A j \in hits : k <= j IN
         IF rq[coll[i]].RequestInUse
         THEN [found |-> FALSE, request |-> NoRequest, rq |-> rq]
         ELSE [found |-> TRUE, request |-> coll[i], rq |-> rq]

\* The lookup handing back the request also when it is in use.
RequestTarget_PendingCollectionReuseListSearch_ReturnsInUse(coll, rq, token) ==
    LET hits == {i \in 1..Len(coll) : rq[coll[i]].UniqueRequestIdReuse = token} IN
    IF hits = {}
    THEN [found |-> FALSE, request |-> NoRequest, rq |-> rq]
    ELSE LET i == CHOOSE k \in hits : \A j \in hits : k <= j IN
         IF rq[coll[i]].RequestInUse
         THEN [found |-> FALSE, request |-> coll[i], rq |-> rq]
         ELSE [found |-> TRUE, request |-> coll[i],
               rq |-> [rq EXCEPT ![coll[i]].RequestInUse = TRUE]]

\* First entry of PendingReuseRequests whose UniqueRequestIdReuse equals the
\* token; fails if RequestInUse, otherwise sets RequestInUse.
RequestTarget_PendingCollectionReuseListSearch(coll, rq, token) ==
    LET hits == {i \in 1..Len(coll) : rq[coll[i]].UniqueRequestIdReuse = token} IN
    IF hits = {}
    THEN [found |-> FALSE, request |-> NoRequest, rq |-> rq]
    ELSE LET i == CHOOSE k \in hits : \A j \in hits : k <= j IN
         IF rq[coll[i]].RequestInUse
         THEN [found |-> FALSE, request |-> NoRequest, rq |-> rq]
         ELSE [found |-> TRUE, request |-> coll[i],
               rq |-> [rq EXCEPT ![coll[i]].RequestInUse = TRUE]]

-----------------------------------------------------------------------------
\* DMF_BufferPool_Get can hand out a context.
BudgetLeft == BufferPoolBorrowed < MaxBorrowed

NewSend(r, reuse) ==
    [req |-> r, reuse |-> reuse, evt |-> req[r].evt,
     token |-> IF req[r].wantCancel THEN req[r].UniqueRequestIdCancel ELSE 0,
     passive |-> PassiveLevel, stage |-> "atTarget", cancelled |-> FALSE,
     status |-> "none", delivered |-> "none", cbCount |-> 0]

-----------------------------------------------------------------------------
\* DMF_RequestTarget_ReuseCreate.

DMF_RequestTarget_ReuseCreate ==
    /\ ModuleState # "Closed"
    /\ \E outcome \in {"CreateFail", "AddFail", "Ok"} :
        /\ IF ~DMF_ModuleReference_Succeeds
           THEN /\ outcome = "Ok"
                /\ ret' = Ret("ReuseCreate", "STATUS_INVALID_DEVICE_STATE", NoRequest, 0, FALSE)
                /\ UNCHANGED <<g_ContinuousRequestTargetUniqueId, PendingReuseRequests, req, issued>>
           ELSE IF outcome = "CreateFail"
           THEN /\ ret' = Ret("ReuseCreate", "STATUS_INSUFFICIENT_RESOURCES", NoRequest, 0, FALSE)
                /\ UNCHANGED <<g_ContinuousRequestTargetUniqueId, PendingReuseRequests, req, issued>>
           ELSE /\ FreeHandles # {}
                /\ g_ContinuousRequestTargetUniqueId < MaxUniqueId
                /\ LET r == NewHandle
                       id == InterlockedIncrement64(g_ContinuousRequestTargetUniqueId)
                       rq1 == [WdfRequestCreate(req, r, "reuse") EXCEPT ![r].UniqueRequestIdReuse = id]
                       add == RequestTarget_PendingCollectionListAdd(
                                  PendingReuseRequests, rq1, r, outcome = "AddFail")
                   IN  /\ g_ContinuousRequestTargetUniqueId' = g_ContinuousRequestTargetUniqueId + 1
                       /\ issued' = Append(issued, id)
                       /\ PendingReuseRequests' = add.coll
                       /\ IF add.ok
                          THEN /\ req' = WdfObjectReference(add.rq, r)
                               /\ ret' = Ret("ReuseCreate", "STATUS_SUCCESS", r, id, FALSE)
                          ELSE /\ req' = WdfObjectDelete(add.rq, r)
                               /\ ret' = Ret("ReuseCreate", "STATUS_INSUFFICIENT_RESOURCES", r, 0, FALSE)
        /\ lock' = LockUse(IF DMF_ModuleReference_Succeeds /\ outcome # "CreateFail"
                           THEN {"RequestTarget_PendingCollectionListAdd"} ELSE {}, {})
    /\ cancels' = MarkDangling(cancels, req')
    /\ UNCHANGED <<PendingAsynchronousRequests, sends, queue, BufferPoolBorrowed,
                   ReferenceCount, ModuleState, PassiveLevel,
                   completed>>
    /\ UNCHANGED <<IoTarget, extraction, deletes, scheduledTask>>

\* DMF_RequestTarget_ReuseDelete: does not reference the Module.
DMF_RequestTarget_ReuseDelete ==
    /\ ModuleState # "Closed"
    /\ \E token \in Tokens :
        LET search == RequestTarget_PendingCollectionReuseListSearch(
                          PendingReuseRequests, req, token)
            r == search.request
            rem == RequestTarget_PendingCollectionListSearchAndRemove(
                          PendingReuseRequests, search.rq, r)
        IN  /\ lock' = LockUse(
                    {"RequestTarget_PendingCollectionReuseListSearch"} \cup
                    (IF search.found
                     THEN {"RequestTarget_PendingCollectionListSearchAndRemove"}
                     ELSE {}), {})
            /\ IF search.found
               THEN /\ PendingReuseRequests' = rem.coll
                    /\ req' = WdfObjectDereference(WdfObjectDelete(rem.rq, r), r)
                    /\ ret' = Ret("ReuseDelete", "TRUE", r, token, FALSE)
               ELSE /\ PendingReuseRequests' = PendingReuseRequests
                    /\ req' = search.rq
                    /\ ret' = Ret("ReuseDelete", "FALSE", NoRequest, 0, FALSE)
    /\ cancels' = MarkDangling(cancels, req')
    /\ UNCHANGED <<g_ContinuousRequestTargetUniqueId, PendingAsynchronousRequests, sends,
                   queue, BufferPoolBorrowed, ReferenceCount, ModuleState, PassiveLevel,
                   issued,
                   completed>>
    /\ UNCHANGED <<IoTarget, extraction, deletes, scheduledTask>>

-----------------------------------------------------------------------------
\* RequestTarget_RequestCreateAndSend, asynchronous.  DMF_RequestTarget_Send
\* is DMF_RequestTarget_SendEx with DmfRequestIdCancel = NULL (wantCancel =
\* FALSE); both are reported as "Send".

\* An Exit block that deletes the request of a synchronous call only.
RequestTarget_RequestCreateAndSend_Exit_SynchronousOnly(rq, r, IsSynchronousRequest, success) ==
    IF r # NoRequest /\ IsSynchronousRequest
    THEN WdfObjectDelete(CallReturns(rq, r), r)
    ELSE IF r # NoRequest THEN CallReturns(rq, r) ELSE rq

\* The Exit block: the request is deleted for a synchronous call and for a
\* failed asynchronous call.
RequestTarget_RequestCreateAndSend_Exit(rq, r, IsSynchronousRequest, success) ==
    IF r # NoRequest /\ (IsSynchronousRequest \/ ~success)
    THEN WdfObjectDelete(CallReturns(rq, r), r)
    ELSE IF r # NoRequest THEN CallReturns(rq, r) ELSE rq

\* From DMF_ModuleReference up to and including the registration in
\* PendingAsynchronousRequests.  The request is private to the call until it
\* is added to the collection.
DMF_RequestTarget_SendEx ==
    /\ ModuleState # "Closed"
    /\ IoTarget # "NULL"
    /\ \E wantCancel \in BOOLEAN, evt \in BOOLEAN,
          outcome \in {"CreateFail", "WrapFail", "FormatFail", "PoolFail", "AddFail", "Ok"} :
        LET op == "Send"
            \* the arguments play no part in a call that fails this early
            early == ~wantCancel /\ ~evt
            same == UNCHANGED <<g_ContinuousRequestTargetUniqueId, PendingAsynchronousRequests,
                                req, BufferPoolBorrowed, ReferenceCount, issued>>
        IN
        /\ IF ~DMF_ModuleReference_Succeeds
           THEN /\ outcome = "Ok" /\ early
                /\ ret' = Ret(op, "STATUS_INVALID_DEVICE_STATE", NoRequest, 0, FALSE)
                /\ same
           ELSE IF outcome = "CreateFail"
           THEN /\ early
                /\ ret' = Ret(op, "STATUS_INSUFFICIENT_RESOURCES", NoRequest, 0, FALSE)
                /\ same
           ELSE /\ FreeHandles # {}
                /\ LET r == NewHandle
                       rq1 == [WdfRequestCreate(req, r, "single") EXCEPT
                                   ![r].wantCancel = wantCancel, ![r].evt = evt]
                   IN
                   IF outcome \in {"WrapFail", "FormatFail", "PoolFail"}
                   THEN \* nothing but the request itself was allocated
                        /\ early
                        /\ req' = RequestTarget_RequestCreateAndSend_Exit(rq1, r, FALSE, FALSE)
                        /\ ret' = Ret(op, IF outcome = "FormatFail" THEN "STATUS_UNSUCCESSFUL"
                                          ELSE "STATUS_INSUFFICIENT_RESOURCES", NoRequest, 0, FALSE)
                        /\ UNCHANGED <<g_ContinuousRequestTargetUniqueId, PendingAsynchronousRequests,
                                       BufferPoolBorrowed, ReferenceCount, issued>>
                   ELSE \* DMF_BufferPool_Get succeeded
                        /\ BudgetLeft
                        /\ BufferPoolBorrowed' = BufferPoolBorrowed + 1
                        /\ IF ~wantCancel
                           THEN /\ outcome = "Ok"
                                /\ req' = [rq1 EXCEPT ![r].pc = "registered",
                                                      ![r].target = IoTarget]
                                /\ ReferenceCount' = ReferenceCount + 1
                                /\ ret' = NoRet
                                /\ UNCHANGED <<g_ContinuousRequestTargetUniqueId,
                                               PendingAsynchronousRequests, issued>>
                           ELSE /\ g_ContinuousRequestTargetUniqueId < MaxUniqueId
                                /\ LET id == InterlockedIncrement64(g_ContinuousRequestTargetUniqueId)
                                       rq2 == [rq1 EXCEPT ![r].UniqueRequestIdCancel = id]
                                       add == RequestTarget_PendingCollectionListAdd(
                                                  PendingAsynchronousRequests, rq2, r,
                                                  outcome = "AddFail")
                                   IN  /\ g_ContinuousRequestTargetUniqueId' =
                                              g_ContinuousRequestTargetUniqueId + 1
                                       /\ issued' = Append(issued, id)
                                       /\ PendingAsynchronousRequests' = add.coll
                                       /\ IF add.ok
                                          THEN /\ req' = [add.rq EXCEPT ![r].pc = "registered",
                                                      ![r].target = IoTarget]
                                               /\ ReferenceCount' = ReferenceCount + 1
                                               /\ ret' = NoRet
                                          ELSE /\ req' = RequestTarget_RequestCreateAndSend_Exit(
                                                             add.rq, r, FALSE, FALSE)
                                               /\ ReferenceCount' = ReferenceCount
                                               /\ ret' = Ret(op, "STATUS_INSUFFICIENT_RESOURCES",
                                                             r, 0, TRUE)
        \* the cancel id is written to a request no other thread can reach yet
        /\ lock' = LockUse(IF /\ DMF_ModuleReference_Succeeds
                              /\ outcome \in {"AddFail", "Ok"} /\ wantCancel
                           THEN {"RequestTarget_PendingCollectionListAdd"} ELSE {}, {})
    /\ cancels' = MarkDangling(cancels, req')
    /\ UNCHANGED <<PendingReuseRequests, sends, queue, ModuleState, PassiveLevel,
                   completed>>
    /\ UNCHANGED <<IoTarget, extraction, deletes, scheduledTask>>

\* WdfRequestAllocateTimer, WdfRequestSend and the rest of the call.
RequestTarget_RequestCreateAndSend_Send ==
    /\ \E r \in Requests, outcome \in {"TimerFail", "SendFail", "Ok"} :
        /\ req[r].kind = "single"
        /\ req[r].pc = "registered"
        /\ LET op == "Send" IN
           IF outcome = "TimerFail"
           THEN \* goto Exit right after the failed allocation
                /\ req' = RequestTarget_RequestCreateAndSend_Exit(req, r, FALSE, FALSE)
                /\ PendingAsynchronousRequests' = PendingAsynchronousRequests
                /\ sends' = sends
                /\ ReferenceCount' = ReferenceCount - 1
                /\ ret' = Ret(op, "STATUS_INSUFFICIENT_RESOURCES", r, 0, TRUE)
           ELSE IF outcome = "SendFail"
           THEN \* WdfRequestSend returned FALSE
                LET rem == IF req[r].wantCancel
                           THEN RequestTarget_PendingCollectionListSearchAndRemove(
                                    PendingAsynchronousRequests, req, r)
                           ELSE [found |-> FALSE, coll |-> PendingAsynchronousRequests,
                                 rq |-> req]
                IN  /\ PendingAsynchronousRequests' = rem.coll
                    /\ req' = RequestTarget_RequestCreateAndSend_Exit(rem.rq, r, FALSE, FALSE)
                    /\ sends' = sends
                    /\ ReferenceCount' = ReferenceCount - 1
                    /\ ret' = Ret(op, "STATUS_UNSUCCESSFUL", r, 0, TRUE)
           ELSE /\ sends' = Append(sends, NewSend(r, FALSE))
                /\ req' = RequestTarget_RequestCreateAndSend_Exit(req, r, FALSE, TRUE)
                /\ PendingAsynchronousRequests' = PendingAsynchronousRequests
                /\ ReferenceCount' = ReferenceCount
                /\ ret' = Ret(op, "STATUS_SUCCESS", r,
                              IF req[r].wantCancel THEN req[r].UniqueRequestIdCancel ELSE 0,
                              TRUE)
        /\ lock' = LockUse(IF outcome = "SendFail" /\ req[r].wantCancel
                           THEN {"RequestTarget_PendingCollectionListSearchAndRemove"} ELSE {}, {})
    /\ cancels' = MarkDangling(cancels, req')
    /\ UNCHANGED <<g_ContinuousRequestTargetUniqueId, PendingReuseRequests, queue,
                   BufferPoolBorrowed, ModuleState, PassiveLevel, issued,
                   completed>>
    /\ UNCHANGED <<IoTarget, extraction, deletes, scheduledTask>>


-----------------------------------------------------------------------------
\* DMF_RequestTarget_SendSynchronously: RequestTarget_RequestCreateAndSend with
\* IsSynchronousRequest = TRUE, no callback and no DmfRequestIdCancel.

\* What the call leaves in the caller's *BytesWritten: written is FALSE on the
\* paths that return before the Exit block's "*BytesWritten = outputBufferSize"
\* (the caller's variable keeps the value it had, whatever that was).
RequestTarget_RequestCreateAndSend_BytesWritten(written, outputBufferSize, before) ==
    IF written THEN outputBufferSize ELSE before

\* From DMF_ModuleReference up to the blocking WdfRequestSend.  The request is
\* private to the call: it is in no collection and has no cancel id.
DMF_RequestTarget_SendSynchronously ==
    /\ ModuleState # "Closed"
    /\ IoTarget # "NULL"
    /\ \E outcome \in {"CreateFail", "WrapFail", "FormatFail", "TimerFail", "Ok"},
          before \in 0..MaxBytes :
        LET op == "SendSynchronously"
            bytes(written) ==
                RequestTarget_RequestCreateAndSend_BytesWritten(written, 0, before)
        IN
        /\ IF ~DMF_ModuleReference_Succeeds
           THEN /\ outcome = "Ok"
                /\ ret' = [Ret(op, "STATUS_INVALID_DEVICE_STATE", NoRequest, 0, FALSE)
                              EXCEPT !.bytes = bytes(FALSE)]
                /\ UNCHANGED <<req, ReferenceCount>>
           ELSE IF outcome = "CreateFail"
           THEN \* "return ntStatus" right after WdfRequestCreate
                /\ ret' = [Ret(op, "STATUS_INSUFFICIENT_RESOURCES", NoRequest, 0, FALSE)
                              EXCEPT !.bytes = bytes(FALSE)]
                /\ UNCHANGED <<req, ReferenceCount>>
           ELSE /\ FreeHandles # {}
                /\ LET r == NewHandle
                       rq1 == WdfRequestCreate(req, r, "sync")
                   IN
                   IF outcome \in {"WrapFail", "FormatFail", "TimerFail"}
                   THEN /\ before = 0
                        /\ req' = RequestTarget_RequestCreateAndSend_Exit(rq1, r, TRUE, FALSE)
                        /\ ret' = [Ret(op, IF outcome = "FormatFail" THEN "STATUS_UNSUCCESSFUL"
                                           ELSE "STATUS_INSUFFICIENT_RESOURCES", r, 0, FALSE)
                                      EXCEPT !.bytes = bytes(TRUE)]
                        /\ ReferenceCount' = ReferenceCount
                   ELSE \* WdfRequestSend with WDF_REQUEST_SEND_OPTION_SYNCHRONOUS
                        /\ before = 0
                        /\ req' = [rq1 EXCEPT ![r].pc = "sent"]
                        /\ ReferenceCount' = ReferenceCount + 1
                        /\ ret' = NoRet
        /\ lock' = LockUse({}, {})
    /\ cancels' = MarkDangling(cancels, req')
    /\ UNCHANGED <<g_ContinuousRequestTargetUniqueId, PendingAsynchronousRequests,
                   PendingReuseRequests, sends, queue, BufferPoolBorrowed, ModuleState,
                   PassiveLevel, issued, completed>>
    /\ UNCHANGED <<IoTarget, extraction, deletes, scheduledTask>>

\* WdfRequestSend returns when the target has completed the request (or the
\* timeout has cancelled it): WdfRequestGetStatus, WdfRequestGetInformation,
\* the Exit block and DMF_ModuleDereference.
RequestTarget_RequestCreateAndSend_Synchronous ==
    /\ \E r \in Requests, status \in {"STATUS_SUCCESS", "STATUS_UNSUCCESSFUL"},
          information \in 0..MaxBytes :
        /\ req[r].kind = "sync"
        /\ req[r].pc = "sent"
        /\ status # "STATUS_SUCCESS" => information = 0
        /\ LET success == status = "STATUS_SUCCESS"
               outputBufferSize == IF success THEN information ELSE 0
           IN  /\ req' = RequestTarget_RequestCreateAndSend_Exit(req, r, TRUE, success)
               /\ ret' = [Ret("SendSynchronously", status, r, 0, FALSE)
                             EXCEPT !.bytes =
                                 RequestTarget_RequestCreateAndSend_BytesWritten(
                                     TRUE, outputBufferSize, 0)]
    /\ ReferenceCount' = ReferenceCount - 1
    /\ lock' = LockUse({}, {})
    /\ cancels' = MarkDangling(cancels, req')
    /\ UNCHANGED <<g_ContinuousRequestTargetUniqueId, PendingAsynchronousRequests,
                   PendingReuseRequests, sends, queue, BufferPoolBorrowed, ModuleState,
                   PassiveLevel, issued, completed>>
    /\ UNCHANGED <<IoTarget, extraction, deletes, scheduledTask>>

-----------------------------------------------------------------------------
\* RequestTarget_RequestSendReuse, asynchronous (DMF_RequestTarget_ReuseSend).

\* An Exit block that deletes the request of a failed call, as the Exit block
\* of RequestTarget_RequestCreateAndSend does.
RequestTarget_RequestSendReuse_Exit_DeleteOnAbort(rq, r, abortReuse) ==
    IF r = NoRequest THEN rq
    ELSE IF abortReuse
    THEN WdfObjectDelete([CallReturns(rq, r) EXCEPT ![r].RequestInUse = FALSE], r)
    ELSE CallReturns(rq, r)

\* An Exit block that does not undo the acquisition of the slot.
RequestTarget_RequestSendReuse_Exit_NoAbort(rq, r, abortReuse) ==
    IF r = NoRequest THEN rq ELSE CallReturns(rq, r)

\* The Exit block: if the request was not sent, RequestInUse is cleared for the
\* request this call acquired (request stays NULL when the lookup failed).
RequestTarget_RequestSendReuse_Exit(rq, r, abortReuse) ==
    IF r = NoRequest THEN rq
    ELSE IF abortReuse
    THEN [CallReturns(rq, r) EXCEPT ![r].RequestInUse = FALSE]
    ELSE CallReturns(rq, r)

\* The slot a reuse token names, if any (history only).
SlotOf(token) ==
    IF \E r \in Requests : req[r].kind = "reuse" /\ req[r].UniqueRequestIdReuse = token
    THEN CHOOSE r \in Requests : req[r].kind = "reuse" /\ req[r].UniqueRequestIdReuse = token
    ELSE NoRequest

\* From DMF_ModuleReference up to and including the registration in
\* PendingAsynchronousRequests.
DMF_RequestTarget_ReuseSend ==
    /\ ModuleState # "Closed"
    /\ IoTarget # "NULL"
    /\ \E token \in Tokens, wantCancel \in BOOLEAN, evt \in BOOLEAN,
          outcome \in {"WrapFail", "FormatFail", "PoolFail", "AddFail", "Ok"} :
        LET same == UNCHANGED <<g_ContinuousRequestTargetUniqueId, PendingAsynchronousRequests,
                                BufferPoolBorrowed, ReferenceCount, issued>>
            \* the arguments play no part in a call that fails this early
            early == ~wantCancel /\ ~evt
            search == RequestTarget_PendingCollectionReuseListSearch(
                          PendingReuseRequests, req, token)
            r == search.request
            prepared == DMF_ModuleReference_Succeeds /\ search.found
            aborted == outcome \in {"WrapFail", "FormatFail", "PoolFail", "AddFail"}
        IN
        /\ IF ~DMF_ModuleReference_Succeeds
           THEN /\ outcome = "Ok" /\ early /\ token = 0
                /\ ret' = Ret("ReuseSend", "STATUS_INVALID_DEVICE_STATE", NoRequest, 0, FALSE)
                /\ req' = req
                /\ same
           ELSE IF ~search.found
           THEN /\ outcome = "Ok" /\ early
                /\ req' = RequestTarget_RequestSendReuse_Exit(search.rq, r, TRUE)
                /\ ret' = Ret("ReuseSend", "STATUS_OBJECTID_NOT_FOUND", SlotOf(token), 0, FALSE)
                /\ same
           ELSE LET rq1 == [search.rq EXCEPT ![r].wantCancel = wantCancel, ![r].evt = evt]
                IN
                IF outcome \in {"WrapFail", "FormatFail", "PoolFail"}
                THEN /\ early
                     /\ req' = RequestTarget_RequestSendReuse_Exit(rq1, r, TRUE)
                     /\ ret' = Ret("ReuseSend",
                                    IF outcome = "FormatFail" THEN "STATUS_UNSUCCESSFUL"
                                    ELSE "STATUS_INSUFFICIENT_RESOURCES", r, 0, FALSE)
                     /\ same
                ELSE \* DMF_BufferPool_Get succeeded
                     /\ BudgetLeft
                     /\ BufferPoolBorrowed' = BufferPoolBorrowed + 1
                     /\ IF ~wantCancel
                        THEN /\ outcome = "Ok"
                             /\ req' = [rq1 EXCEPT ![r].pc = "registered",
                                                      ![r].target = IoTarget]
                             /\ ReferenceCount' = ReferenceCount + 1
                             /\ ret' = NoRet
                             /\ UNCHANGED <<g_ContinuousRequestTargetUniqueId,
                                            PendingAsynchronousRequests, issued>>
                        ELSE /\ g_ContinuousRequestTargetUniqueId < MaxUniqueId
                             /\ LET id == InterlockedIncrement64(g_ContinuousRequestTargetUniqueId)
                                    rq2 == [rq1 EXCEPT ![r].UniqueRequestIdCancel = id]
                                    add == RequestTarget_PendingCollectionListAdd(
                                               PendingAsynchronousRequests, rq2, r,
                                               outcome = "AddFail")
                                IN  /\ g_ContinuousRequestTargetUniqueId' =
                                           g_ContinuousRequestTargetUniqueId + 1
                                    /\ issued' = Append(issued, id)
                                    /\ PendingAsynchronousRequests' = add.coll
                                    /\ IF add.ok
                                       THEN /\ req' = [add.rq EXCEPT ![r].pc = "registered",
                                                      ![r].target = IoTarget]
                                            /\ ReferenceCount' = ReferenceCount + 1
                                            /\ ret' = NoRet
                                       ELSE /\ req' = RequestTarget_RequestSendReuse_Exit(
                                                          add.rq, r, TRUE)
                                            /\ ReferenceCount' = ReferenceCount
                                            /\ ret' = Ret("ReuseSend",
                                                           "STATUS_INSUFFICIENT_RESOURCES",
                                                           r, 0, TRUE)
        \* the Exit block clears RequestInUse, and the cancel id is written to
        \* the request, outside the lock
        /\ lock' = LockUse(
                (IF DMF_ModuleReference_Succeeds THEN {"RequestTarget_PendingCollectionReuseListSearch"} ELSE {}) \cup
                (IF prepared /\ outcome \in {"AddFail", "Ok"} /\ wantCancel
                 THEN {"RequestTarget_PendingCollectionListAdd"} ELSE {}),
                (IF prepared /\ aborted THEN {"RequestInUse"} ELSE {}) \cup
                (IF prepared /\ outcome \in {"AddFail", "Ok"} /\ wantCancel
                 THEN {"UniqueRequestIdCancel"} ELSE {}))
    /\ cancels' = MarkDangling(cancels, req')
    /\ UNCHANGED <<PendingReuseRequests, sends, queue, ModuleState, PassiveLevel,
                   completed>>
    /\ UNCHANGED <<IoTarget, extraction, deletes, scheduledTask>>

\* WdfRequestAllocateTimer, WdfRequestSend and the rest of the call.
RequestTarget_RequestSendReuse_Send ==
    /\ \E r \in Requests, outcome \in {"TimerFail", "SendFail", "Ok"} :
        /\ req[r].kind = "reuse"
        /\ req[r].pc = "registered"
        /\ IF outcome = "TimerFail"
           THEN \* goto Exit right after the failed allocation
                /\ req' = RequestTarget_RequestSendReuse_Exit(req, r, TRUE)
                /\ PendingAsynchronousRequests' = PendingAsynchronousRequests
                /\ sends' = sends
                /\ ReferenceCount' = ReferenceCount - 1
                /\ ret' = Ret("ReuseSend", "STATUS_INSUFFICIENT_RESOURCES", r, 0, TRUE)
           ELSE IF outcome = "SendFail"
           THEN \* WdfRequestSend returned FALSE
                LET rem == IF req[r].wantCancel
                           THEN RequestTarget_PendingCollectionListSearchAndRemove(
                                    PendingAsynchronousRequests, req, r)
                           ELSE [found |-> FALSE, coll |-> PendingAsynchronousRequests,
                                 rq |-> req]
                IN  /\ PendingAsynchronousRequests' = rem.coll
                    /\ req' = RequestTarget_RequestSendReuse_Exit(rem.rq, r, TRUE)
                    /\ sends' = sends
                    /\ ReferenceCount' = ReferenceCount - 1
                    /\ ret' = Ret("ReuseSend", "STATUS_UNSUCCESSFUL", r, 0, TRUE)
           ELSE /\ sends' = Append(sends, NewSend(r, TRUE))
                /\ req' = RequestTarget_RequestSendReuse_Exit(req, r, FALSE)
                /\ PendingAsynchronousRequests' = PendingAsynchronousRequests
                /\ ReferenceCount' = ReferenceCount
                /\ ret' = Ret("ReuseSend", "STATUS_SUCCESS", r,
                              IF req[r].wantCancel THEN req[r].UniqueRequestIdCancel ELSE 0,
                              TRUE)
        \* the Exit block clears RequestInUse outside the lock
        /\ lock' = LockUse(IF outcome = "SendFail" /\ req[r].wantCancel
                           THEN {"RequestTarget_PendingCollectionListSearchAndRemove"} ELSE {},
                           IF outcome # "Ok" THEN {"RequestInUse"} ELSE {})
    /\ cancels' = MarkDangling(cancels, req')
    /\ UNCHANGED <<g_ContinuousRequestTargetUniqueId, PendingReuseRequests, queue,
                   BufferPoolBorrowed, ModuleState, PassiveLevel, issued,
                   completed>>
    /\ UNCHANGED <<IoTarget, extraction, deletes, scheduledTask>>

-----------------------------------------------------------------------------
\* Completion.

\* The target completes a sent request and calls its completion routine:
\* RequestTarget_CompletionRoutine[Reuse] goes on to
\* RequestTarget_ProcessAsynchronousRequestRoot in place, and
\* RequestTarget_CompletionRoutinePassive[Reuse] enqueues a snapshot on
\* DmfModuleQueuedWorkitemSingle.
\* A send set up as if CompletionOption were never Passive.
completionRoutineSingle_NeverPassive(snd) == "RequestTarget_CompletionRoutine"

\* The completion routine the send call registered with
\* WdfRequestSetCompletionRoutine (the Reuse variants differ in the ReuseRequest
\* flag only, which the send's record carries).
completionRoutineSingle(snd) ==
    IF snd.passive THEN "RequestTarget_CompletionRoutinePassive"
    ELSE "RequestTarget_CompletionRoutine"

RequestTarget_CompletionRoutine ==
    /\ \E s \in 1..Len(sends), status \in {"STATUS_SUCCESS", "STATUS_UNSUCCESSFUL",
                                           "STATUS_CANCELLED"} :
        /\ sends[s].stage = "atTarget"
        /\ status = "STATUS_CANCELLED" => sends[s].cancelled
        /\ status = "STATUS_UNSUCCESSFUL" => ~sends[s].cancelled
        /\ LET deferred == completionRoutineSingle(sends[s]) =
                               "RequestTarget_CompletionRoutinePassive"
           IN  /\ sends' = [sends EXCEPT ![s].status = status,
                                         ![s].stage = IF deferred THEN "queued"
                                                      ELSE "completing"]
               /\ queue' = IF deferred THEN Append(queue, s) ELSE queue
    /\ ret' = NoRet
    /\ lock' = LockUse({}, {})
    /\ UNCHANGED <<g_ContinuousRequestTargetUniqueId, PendingAsynchronousRequests,
                   PendingReuseRequests, req, cancels, BufferPoolBorrowed, ReferenceCount,
                   ModuleState, PassiveLevel, issued,
                   completed>>
    /\ UNCHANGED <<IoTarget, extraction, deletes, scheduledTask>>

\* RequestTarget_ProcessAsynchronousRequestRoot, first step: detach the request
\* from PendingAsynchronousRequests.  A deferred completion runs when the
\* queue's worker reaches it (RequestTarget_QueuedWorkitemCallbackSingle).
RequestTarget_ProcessAsynchronousRequestRoot_Detach ==
    /\ \E s \in 1..Len(sends) :
        /\ \/ sends[s].stage = "completing"
           \/ sends[s].stage = "queued" /\ Head(queue) = s
        /\ LET rem == RequestTarget_PendingCollectionListSearchAndRemove(
                          PendingAsynchronousRequests, req, sends[s].req)
           IN  /\ PendingAsynchronousRequests' = rem.coll
               /\ req' = rem.rq
        /\ sends' = [sends EXCEPT ![s].stage = "detached"]
    /\ cancels' = MarkDangling(cancels, req')
    /\ ret' = NoRet
    /\ lock' = LockUse({"RequestTarget_PendingCollectionListSearchAndRemove"}, {})
    /\ UNCHANGED <<g_ContinuousRequestTargetUniqueId, PendingReuseRequests, queue,
                   BufferPoolBorrowed, ReferenceCount, ModuleState, PassiveLevel, issued,
                   completed>>
    /\ UNCHANGED <<IoTarget, extraction, deletes, scheduledTask>>

\* WdfRequestGetStatus: the completion status the target stored in the request
\* (kept in the record of the send that is using the request).
WdfRequestGetStatus(snd) == snd.status

\* A completion that does not call back for a cancelled request.
RequestTarget_ProcessAsynchronousRequestRoot_Invoke_NotIfCancelled(snd) ==
    IF snd.evt /\ snd.status # "STATUS_CANCELLED" THEN snd.cbCount + 1 ELSE snd.cbCount

\* How many times the Client's callback has run for the send after the
\* "Call the Client's callback function" block.
RequestTarget_ProcessAsynchronousRequestRoot_Invoke(snd) ==
    IF snd.evt THEN snd.cbCount + 1 ELSE snd.cbCount

\* A completion that leaves RequestInUse set.
RequestTarget_ProcessAsynchronousRequestRoot_Release_Never(rq, snd) == rq

\* "if (ReuseRequest) ... RequestInUse = FALSE", ahead of the callback.
RequestTarget_ProcessAsynchronousRequestRoot_Release(rq, snd) ==
    IF snd.reuse THEN [rq EXCEPT ![snd.req].RequestInUse = FALSE] ELSE rq

\* RequestTarget_ProcessAsynchronousRequestRoot, second step: read the status,
\* clear RequestInUse for a reusable request, enter the Client's callback.
RequestTarget_ProcessAsynchronousRequestRoot_Callback ==
    /\ \E s \in 1..Len(sends) :
        /\ sends[s].stage = "detached"
        /\ sends' = [sends EXCEPT
                            ![s].stage = "incallback",
                            ![s].delivered = WdfRequestGetStatus(sends[s]),
                            ![s].cbCount =
                                RequestTarget_ProcessAsynchronousRequestRoot_Invoke(sends[s])]
        /\ req' = RequestTarget_ProcessAsynchronousRequestRoot_Release(req, sends[s])
        \* RequestInUse is cleared outside the lock
        /\ lock' = LockUse({}, IF sends[s].reuse THEN {"RequestInUse"} ELSE {})
    /\ ret' = NoRet
    /\ UNCHANGED <<g_ContinuousRequestTargetUniqueId, PendingAsynchronousRequests,
                   PendingReuseRequests, cancels, queue, BufferPoolBorrowed, ReferenceCount,
                   ModuleState, PassiveLevel, issued,
                   completed>>
    /\ UNCHANGED <<IoTarget, extraction, deletes, scheduledTask>>

\* A completion that keeps the reference its send call took.
RequestTarget_ProcessAsynchronousRequestRoot_Dereference_Never(count) == count

\* RequestTarget_ProcessAsynchronousRequestRoot, "Undo reference taken during
\* asynchronous call": DMF_ModuleDereference.
RequestTarget_ProcessAsynchronousRequestRoot_Dereference(count) == count - 1

\* RequestTarget_ProcessAsynchronousRequestRoot, last step: the callback has
\* returned; put the context back, delete a one-shot request, dereference the
\* Module.  The send's record is dropped (the queue's indices follow).
RequestTarget_ProcessAsynchronousRequestRoot_Finish ==
    /\ \E s \in 1..Len(sends) :
        /\ sends[s].stage = "incallback"
        /\ BufferPoolBorrowed' = BufferPoolBorrowed - 1
        /\ req' = IF sends[s].reuse THEN req ELSE WdfObjectDelete(req, sends[s].req)
        /\ sends' = RemoveAt(sends, s)
        /\ LET q == IF sends[s].passive THEN Tail(queue) ELSE queue
           IN  queue' = [i \in 1..Len(q) |-> IF q[i] > s THEN q[i] - 1 ELSE q[i]]
        /\ completed' = completed \cup ({sends[s].token} \ {0})
        /\ ReferenceCount' = RequestTarget_ProcessAsynchronousRequestRoot_Dereference(
                                 ReferenceCount)
    /\ cancels' = MarkDangling(cancels, req')
    /\ ret' = NoRet
    /\ lock' = LockUse({}, {})
    /\ UNCHANGED <<g_ContinuousRequestTargetUniqueId, PendingAsynchronousRequests,
                   PendingReuseRequests, ModuleState, PassiveLevel, issued>>
    /\ UNCHANGED <<IoTarget, extraction, deletes, scheduledTask>>

-----------------------------------------------------------------------------
\* DMF_RequestTarget_Cancel.

\* The send a cancel token was returned for had already been completed by the
\* target (history only).
CompletedSend(token) ==
    \/ token \in completed
    \/ \E s \in 1..Len(sends) :
        token # 0 /\ sends[s].token = token /\ sends[s].stage # "atTarget"

\* The token was returned to the Client by a send call, which happens only
\* when the target accepted the send (history only).
ReturnedToken(token) ==
    \/ token \in completed
    \/ \E s \in 1..Len(sends) : token # 0 /\ sends[s].token = token

\* The value DMF_RequestTarget_Cancel returns once the request was found:
\* the result of WdfRequestCancelSentRequest.
DMF_RequestTarget_Cancel_Result(found, accepted) == found /\ accepted

\* DMF_ModuleReference and RequestTarget_PendingCollectionListSearchAndReference.
DMF_RequestTarget_Cancel ==
    /\ ModuleState # "Closed"
    /\ \E token \in Tokens :
        LET search == RequestTarget_PendingCollectionListSearchAndReference(
                          PendingAsynchronousRequests, req, token)
            none == [Ret("Cancel", "FALSE", NoRequest, 0, FALSE)
                        EXCEPT !.late = CompletedSend(token),
                               !.done = token \in completed]
        IN
        /\ IF ~DMF_ModuleReference_Succeeds \/ ~search.found
           THEN /\ ret' = none
                /\ UNCHANGED <<req, cancels, ReferenceCount>>
           ELSE /\ Len(cancels) < MaxCancels
                /\ req' = search.rq
                /\ cancels' = Append(cancels, [token |-> token, req |-> search.request,
                                               dangling |-> FALSE,
                                               own |-> ReturnedToken(token),
                                               late |-> CompletedSend(token),
                                               done |-> token \in completed])
                /\ ReferenceCount' = ReferenceCount + 1
                /\ ret' = NoRet
        /\ lock' = LockUse(
                IF DMF_ModuleReference_Succeeds
                THEN {"RequestTarget_PendingCollectionListSearchAndReference"}
                ELSE {}, {})
    /\ UNCHANGED <<g_ContinuousRequestTargetUniqueId, PendingAsynchronousRequests,
                   PendingReuseRequests, sends, queue, BufferPoolBorrowed, ModuleState,
                   PassiveLevel, issued,
                   completed>>
    /\ UNCHANGED <<IoTarget, extraction, deletes, scheduledTask>>

\* WdfRequestCancelSentRequest, WdfObjectDereferenceWithTag and
\* DMF_ModuleDereference.  The target accepts a cancellation only for a request
\* that is pending in it.
DMF_RequestTarget_Cancel_Finish ==
    /\ \E i \in 1..Len(cancels), accepted \in BOOLEAN :
        LET c == cancels[i]
            r == c.req
            at == {s \in 1..Len(sends) : sends[s].req = r /\ sends[s].stage = "atTarget"}
        IN  /\ accepted => at # {}
            /\ sends' = [s \in 1..Len(sends) |->
                            IF s \in at /\ accepted
                            THEN [sends[s] EXCEPT !.cancelled = TRUE]
                            ELSE sends[s]]
            /\ req' = WdfObjectDereference(req, r)
            /\ cancels' = MarkDangling(RemoveAt(cancels, i), req')
            /\ ret' = [Ret("Cancel",
                           IF DMF_RequestTarget_Cancel_Result(TRUE, accepted)
                           THEN "TRUE" ELSE "FALSE", r, 0, FALSE)
                          EXCEPT !.wrongSend =
                                     c.own /\ \E s \in at : sends[s].token # c.token,
                                 !.freed = c.dangling \/ req[r].kind = "free",
                                 !.late = c.late,
                                 !.done = c.done]
    /\ ReferenceCount' = ReferenceCount - 1
    /\ lock' = LockUse({}, {})
    /\ UNCHANGED <<g_ContinuousRequestTargetUniqueId, PendingAsynchronousRequests,
                   PendingReuseRequests, queue, BufferPoolBorrowed, ModuleState,
                   PassiveLevel, issued,
                   completed>>
    /\ UNCHANGED <<IoTarget, extraction, deletes, scheduledTask>>

-----------------------------------------------------------------------------
\* Close.

\* The framework starts closing the Module: from here DMF_ModuleReference
\* fails, and the Close callback runs once the reference count has drained.
DMF_Module_Close ==
    /\ ModuleState = "Opened"
    /\ ModuleState' = "Closing"
    /\ ret' = NoRet
    /\ lock' = LockUse({}, {})
    /\ UNCHANGED <<g_ContinuousRequestTargetUniqueId, PendingAsynchronousRequests,
                   PendingReuseRequests, req, sends, cancels, queue, BufferPoolBorrowed,
                   ReferenceCount, PassiveLevel, issued,
                   completed>>
    /\ UNCHANGED <<IoTarget, extraction, deletes, scheduledTask>>

\* A Close that does not poll.
DMF_RequestTarget_Close_Wait_Never(coll) == FALSE

\* The polling loops of DMF_RequestTarget_Close leave when this is FALSE.
DMF_RequestTarget_Close_Wait(coll) == Len(coll) > 0

\* DMF_RequestTarget_Close: the loop on PendingAsynchronousRequests.
DMF_RequestTarget_Close_Pending ==
    /\ ModuleState = "Closing"
    /\ DMF_ModuleReferencesDrained
    /\ ~DMF_RequestTarget_Close_Wait(PendingAsynchronousRequests)
    /\ ModuleState' = "ClosingReuse"
    /\ ret' = NoRet
    \* WdfCollectionGetCount is called outside the lock
    /\ lock' = LockUse({}, {"PendingAsynchronousRequests"})
    /\ UNCHANGED <<g_ContinuousRequestTargetUniqueId, PendingAsynchronousRequests,
                   PendingReuseRequests, req, sends, cancels, queue, BufferPoolBorrowed,
                   ReferenceCount, PassiveLevel, issued,
                   completed>>
    /\ UNCHANGED <<IoTarget, extraction, deletes, scheduledTask>>

\* DMF_RequestTarget_Close: the loop on PendingReuseRequests, and the return.
DMF_RequestTarget_Close_Reuse ==
    /\ ModuleState = "ClosingReuse"
    /\ ~DMF_RequestTarget_Close_Wait(PendingReuseRequests)
    /\ ModuleState' = "Closed"
    /\ ret' = Ret("Close", "none", NoRequest, 0, FALSE)
    \* WdfCollectionGetCount is called outside the lock
    /\ lock' = LockUse({}, {"PendingReuseRequests"})
    /\ UNCHANGED <<g_ContinuousRequestTargetUniqueId, PendingAsynchronousRequests,
                   PendingReuseRequests, req, sends, cancels, queue, BufferPoolBorrowed,
                   ReferenceCount, PassiveLevel, issued,
                   completed>>
    /\ UNCHANGED <<IoTarget, extraction, deletes, scheduledTask>>

-----------------------------------------------------------------------------
\* DMF_RequestTarget_IoTargetSet and DMF_RequestTarget_IoTargetClear: each
\* references the Module, writes moduleContext->IoTarget and dereferences the
\* Module before it returns.

DMF_RequestTarget_IoTargetSet ==
    /\ ModuleState # "Closed"
    /\ IoTarget = "NULL"
    /\ IF ~DMF_ModuleReference_Succeeds
       THEN /\ IoTarget' = IoTarget
            /\ ret' = Ret("IoTargetSet", "STATUS_INVALID_DEVICE_STATE", NoRequest, 0, FALSE)
       ELSE /\ IoTarget' = "WDFIOTARGET"
            /\ ret' = Ret("IoTargetSet", "none", NoRequest, 0, FALSE)
    /\ lock' = LockUse({}, {})
    /\ UNCHANGED <<g_ContinuousRequestTargetUniqueId, PendingAsynchronousRequests,
                   PendingReuseRequests, req, sends, cancels, queue, BufferPoolBorrowed,
                   ReferenceCount, ModuleState, PassiveLevel, issued, completed>>
    /\ UNCHANGED <<extraction, deletes, scheduledTask>>

DMF_RequestTarget_IoTargetClear ==
    /\ ModuleState # "Closed"
    /\ IF ~DMF_ModuleReference_Succeeds
       THEN /\ IoTarget' = IoTarget
            /\ ret' = Ret("IoTargetClear", "STATUS_INVALID_DEVICE_STATE", NoRequest, 0, FALSE)
       ELSE /\ IoTarget' = "NULL"
            /\ ret' = Ret("IoTargetClear", "none", NoRequest, 0, FALSE)
    /\ lock' = LockUse({}, {})
    /\ UNCHANGED <<g_ContinuousRequestTargetUniqueId, PendingAsynchronousRequests,
                   PendingReuseRequests, req, sends, cancels, queue, BufferPoolBorrowed,
                   ReferenceCount, ModuleState, PassiveLevel, issued, completed>>
    /\ UNCHANGED <<extraction, deletes, scheduledTask>>

-----------------------------------------------------------------------------
Next ==
    \/ DMF_RequestTarget_ReuseCreate
    \/ DMF_RequestTarget_ReuseDelete
    \/ DMF_RequestTarget_SendEx
    \/ RequestTarget_RequestCreateAndSend_Send
    \/ DMF_RequestTarget_ReuseSend
    \/ RequestTarget_RequestSendReuse_Send
    \/ RequestTarget_CompletionRoutine
    \/ RequestTarget_ProcessAsynchronousRequestRoot_Detach
    \/ RequestTarget_ProcessAsynchronousRequestRoot_Callback
    \/ RequestTarget_ProcessAsynchronousRequestRoot_Finish
    \/ DMF_RequestTarget_Cancel
    \/ DMF_RequestTarget_Cancel_Finish
    \/ DMF_Module_Close
    \/ DMF_RequestTarget_Close_Pending
    \/ DMF_RequestTarget_Close_Reuse

Spec == Init /\ [][Next]_vars

\* The Module from the moment it is opened, before the Client has given it a
\* target, with completion at DISPATCH_LEVEL: every Method of the Module,
\* DMF_RequestTarget_SendSynchronously, DMF_RequestTarget_IoTargetSet and
\* DMF_RequestTarget_IoTargetClear included.
InitMethods ==
    /\ g_ContinuousRequestTargetUniqueId = 0
    /\ PendingAsynchronousRequests = <<>>
    /\ PendingReuseRequests = <<>>
    /\ req = [r \in Requests |-> FreeRequest]
    /\ sends = <<>>
    /\ cancels = <<>>
    /\ queue = <<>>
    /\ BufferPoolBorrowed = 0
    /\ ReferenceCount = 0
    /\ ModuleState = "Opened"
    /\ PassiveLevel = FALSE
    /\ issued = <<>>
    /\ completed = {}
    /\ ret = NoRet
    /\ lock = LockUse({}, {})
    /\ IoTarget = "NULL"
    /\ RequestType = "none"
    /\ CompletionParams = "none"
    /\ Arguments = <<>>
    /\ deletes = <<>>
    /\ ScheduledTask_Idle

NextMethods ==
    \/ DMF_RequestTarget_IoTargetSet
    \/ DMF_RequestTarget_IoTargetClear
    \/ DMF_RequestTarget_SendSynchronously
    \/ RequestTarget_RequestCreateAndSend_Synchronous
    \/ DMF_RequestTarget_ReuseCreate
    \/ DMF_RequestTarget_ReuseDelete
    \/ DMF_RequestTarget_SendEx
    \/ RequestTarget_RequestCreateAndSend_Send
    \/ DMF_RequestTarget_ReuseSend
    \/ RequestTarget_RequestSendReuse_Send
    \/ RequestTarget_CompletionRoutine
    \/ RequestTarget_ProcessAsynchronousRequestRoot_Detach
    \/ RequestTarget_ProcessAsynchronousRequestRoot_Callback
    \/ RequestTarget_ProcessAsynchronousRequestRoot_Finish
    \/ DMF_RequestTarget_Cancel
    \/ DMF_RequestTarget_Cancel_Finish
    \/ DMF_Module_Close
    \/ DMF_RequestTarget_Close_Pending
    \/ DMF_RequestTarget_Close_Reuse

SpecMethods == InitMethods /\ [][NextMethods]_vars


-----------------------------------------------------------------------------
\* Properties.

\* The sends in flight on request r, and the send calls that hold r.
SendsOn(r) == {s \in 1..Len(sends) : sends[s].req = r}
AtTarget(r) == {s \in SendsOn(r) : sends[s].stage = "atTarget"}
BeforeCallback == {"atTarget", "queued", "completing", "detached"}
FailedSend ==
    /\ ret.op \in {"Send", "ReuseSend"}
    /\ ret.status \in {"STATUS_INSUFFICIENT_RESOURCES", "STATUS_UNSUCCESSFUL"}

C2_CancelOnlyOwnSend == ret.op = "Cancel" => ~ret.wrongSend

\* C3: all unique ids generated for reuse tokens and cancel tokens are
\* non-zero and pairwise distinct.
C3_TokensDistinctNonZero ==
    \A i, j \in 1..Len(issued) :
        /\ issued[i] # 0
        /\ i # j => issued[i] # issued[j]

\* A reuse token and a cancel token were issued and the slot was then deleted.
C3_Witness ==
    /\ Len(issued) >= 2
    /\ ret.op = "ReuseDelete" /\ ret.status = "TRUE"
    /\ completed # {}

\* C4: Cancel called with a token whose send has finished its completion
\* returns FALSE, and the request Cancel hands to the target is never freed
\* memory.
C4_CancelAfterCompletion ==
    /\ ret.op = "Cancel" /\ ret.done => ret.status = "FALSE"
    /\ ret.op = "Cancel" => ~ret.freed
    /\ \A i \in 1..Len(cancels) :
        ~cancels[i].dangling /\ req[cancels[i].req].kind # "free"

\* C5: Cancel called with a token whose send the target had already completed
\* returns FALSE; the callback gets the status the target completed the
\* request with, runs at most once, and a one-shot request is not deleted
\* before its completion deletes it.
C5_CancelAfterTargetCompleted ==
    /\ ret.op = "Cancel" /\ ret.late => ret.status = "FALSE"
    /\ \A s \in 1..Len(sends) :
        /\ sends[s].stage = "incallback" => sends[s].delivered = sends[s].status
        /\ sends[s].cbCount <= 1
        /\ ~sends[s].reuse => ~req[sends[s].req].deleted

\* C6: a ReuseSend on a slot that is in use returns an error and changes
\* nothing; no step arms a slot whose RequestInUse is set; at most one send
\* per slot is at the target, and none while a send call holds the slot.
C6_ReuseExclusive ==
    [][/\ (ret'.op = "ReuseSend" /\ ret'.status = "STATUS_OBJECTID_NOT_FOUND")
            => UNCHANGED <<g_ContinuousRequestTargetUniqueId, PendingAsynchronousRequests,
                           PendingReuseRequests, req, sends, cancels, queue,
                           BufferPoolBorrowed, ReferenceCount, issued, completed>>
       /\ \A r \in Requests :
            /\ (req[r].kind = "reuse" /\ req[r].RequestInUse /\ req[r].pc = "none")
                  => /\ req'[r].pc = "none"
                     /\ Cardinality(AtTarget(r)') <= Cardinality(AtTarget(r))
            /\ Cardinality(AtTarget(r)') +
                  (IF req'[r].pc = "registered" THEN 1 ELSE 0) <= 1]_vars

\* A ReuseSend was rejected for a slot whose send is at the target.
C6_Witness ==
    /\ ret.op = "ReuseSend" /\ ret.status = "STATUS_OBJECTID_NOT_FOUND"
    /\ ret.req # NoRequest
    /\ req[ret.req].RequestInUse
    /\ AtTarget(ret.req) # {}

\* C7 as stated: until the callback of the slot's send has returned, no other
\* ReuseSend on the slot gets past the lookup.
C7_RejectedUntilCallbackReturned ==
    \A s \in 1..Len(sends) :
        sends[s].reuse =>
            /\ SendsOn(sends[s].req) = {s}
            /\ req[sends[s].req].pc = "none"

\* C7: a slot is held (RequestInUse set, so that ReuseSend is rejected) by its
\* send until the completion reaches the callback, and is released when the
\* callback is entered: from then on, during the callback and after it, a
\* ReuseSend is accepted (the slot is free until a ReuseSend or a ReuseDelete
\* takes it).
C7_RejectedUntilCallbackEntered ==
    \A s \in 1..Len(sends) :
        sends[s].reuse =>
            LET r == sends[s].req IN
            /\ sends[s].stage \in BeforeCallback =>
                  /\ req[r].RequestInUse
                  /\ req[r].pc = "none"
                  /\ \A t \in SendsOn(r) \ {s} : sends[t].stage = "incallback"
            /\ (/\ sends[s].stage = "incallback"
                /\ SendsOn(r) = {s} /\ req[r].pc = "none" /\ ~req[r].deleted)
                  => ~req[r].RequestInUse

\* A ReuseSend returned success while the callback of the slot's previous send
\* had not returned.
C7_Witness ==
    /\ ret.op = "ReuseSend" /\ ret.status = "STATUS_SUCCESS"
    /\ \E s \in SendsOn(ret.req) : sends[s].stage = "incallback"
    /\ AtTarget(ret.req) # {}

\* C8: when DMF_RequestTarget_Close has returned, PendingAsynchronousRequests
\* and PendingReuseRequests are empty and no accepted send is left whose
\* completion (callback included) has not finished.
C8_CloseLeavesNothing ==
    ModuleState = "Closed" =>
        /\ PendingAsynchronousRequests = <<>>
        /\ PendingReuseRequests = <<>>
        /\ sends = <<>>
        /\ ReferenceCount = 0

\* Close returned after a cancellable send had finished its completion.
C8_Witness ==
    /\ ModuleState = "Closed"
    /\ ret.op = "Close"
    /\ completed # {}

\* C9: after a send call that failed, the request of that call is not in
\* PendingAsynchronousRequests.
C9_FailedSendNotPending ==
    (FailedSend /\ ret.req # NoRequest) =>
        Count(PendingAsynchronousRequests, ret.req) = 0

\* C10: after a send call that failed with a context borrowed from the buffer
\* pool, the only contexts still borrowed are those of the accepted sends in
\* flight and of the send calls in progress.
C10_FailedSendReturnsContext ==
    (FailedSend /\ ret.ctx) =>
        BufferPoolBorrowed =
            Len(sends) + Cardinality({r \in Requests : req[r].pc = "registered"})

\* The send calls that are between their registration and WdfRequestSend.
InProgress == {r \in Requests : req[r].pc \in {"registered", "sent"}}

\* The one-shot sends in flight on request r (a send record of a reusable
\* request deleted during its callback may still name a handle that has been
\* handed out again).
OneShotSendsOn(r) == {s \in SendsOn(r) : ~sends[s].reuse}

\* C11: a one-shot request is alive (WdfObjectDelete not yet called on it)
\* exactly while its send call is in progress or its accepted send has not
\* finished its completion, so a failed call has deleted it once and the
\* completion, the only other deleter, never meets a deleted request; a
\* deleted one-shot request has no send, hence no callback; and when a Send
\* call has returned the Module references held are those of the sends in
\* flight, the send calls in progress and the Cancel calls in progress.
C11_OneShotDestroyedOnce ==
    /\ \A r \in Requests :
        req[r].kind = "single" =>
            Cardinality(OneShotSendsOn(r)) + (IF r \in InProgress THEN 1 ELSE 0) =
                (IF req[r].deleted THEN 0 ELSE 1)
    /\ \A s \in 1..Len(sends) :
        ~sends[s].reuse => req[sends[s].req].kind = "single"
    /\ ret.op = "Send" =>
        ReferenceCount = Len(sends) + Cardinality(InProgress) + Len(cancels)

\* A cancellable one-shot Send failed at WdfRequestAllocateTimer: the request
\* was deleted by the call and has no send.
C11_Witness ==
    /\ FailedSend /\ ret.op = "Send" /\ ret.ctx
    /\ req[ret.req].kind = "single" /\ req[ret.req].deleted
    /\ OneShotSendsOn(ret.req) = {}

\* C12: when a ReuseSend has returned a transient error (allocation, format,
\* pool, registration, timer or send failure), its slot is still in
\* PendingReuseRequests, alive, with RequestInUse clear, and the lookup a
\* later ReuseSend with the same reuse token makes finds and acquires it.
C12_FailedReuseSendRecoverable ==
    (FailedSend /\ ret.op = "ReuseSend") =>
        LET r == ret.req IN
        /\ r # NoRequest
        /\ Count(PendingReuseRequests, r) = 1
        /\ req[r].kind = "reuse" /\ ~req[r].deleted /\ ~req[r].RequestInUse
        /\ RequestTarget_PendingCollectionReuseListSearch(
               PendingReuseRequests, req, req[r].UniqueRequestIdReuse).request = r

\* A ReuseSend without a cancel id was accepted on a slot that an earlier
\* ReuseSend, failed at WdfRequestAllocateTimer, left registered in
\* PendingAsynchronousRequests.
C12_Witness ==
    /\ ret.op = "ReuseSend" /\ ret.status = "STATUS_SUCCESS" /\ ret.token = 0
    /\ Count(PendingAsynchronousRequests, ret.req) >= 1
    /\ AtTarget(ret.req) # {}

\* The request has been handed to a send call that asked for a cancel id and
\* that call is in progress, or the target accepted that send and its
\* completion has not yet detached the request.
CancellableInFlight(r) ==
    \/ r \in InProgress /\ req[r].wantCancel
    \/ \E s \in SendsOn(r) :
        sends[s].token # 0 /\ sends[s].stage \in {"atTarget", "queued", "completing"}

\* C13: a request is in PendingAsynchronousRequests if and only if it is being
\* sent or has been sent with a cancel id and its completion has not yet taken
\* it out; in particular a request whose send call has failed or whose
\* completion has run is not in the collection.
C13_PendingIffCancellableInFlight ==
    \A r \in Requests :
        Count(PendingAsynchronousRequests, r) > 0 <=> CancellableInFlight(r)

\* C14: a step that takes a request out of PendingReuseRequests, or that
\* deletes a reusable request, is a DMF_RequestTarget_ReuseDelete on that
\* request that returns TRUE; completions, Cancel and ReuseSend (failed or
\* accepted) do neither.
C14_OnlyReuseDeleteRemoves ==
    [][\A r \in Requests :
          (\/ Count(PendingReuseRequests', r) < Count(PendingReuseRequests, r)
           \/ /\ req[r].kind = "reuse" /\ ~req[r].deleted
              /\ (req'[r].kind # "reuse" \/ req'[r].deleted))
          => (ret'.op = "ReuseDelete" /\ ret'.status = "TRUE" /\ ret'.req = r)]_vars

\* A cancellable send of the slot has finished its completion, a later
\* ReuseSend on the slot has failed, and the slot is still in
\* PendingReuseRequests, not deleted.
C14_Witness ==
    /\ completed # {}
    /\ FailedSend /\ ret.op = "ReuseSend" /\ ret.req # NoRequest
    /\ Count(PendingReuseRequests, ret.req) = 1
    /\ req[ret.req].kind = "reuse" /\ ~req[ret.req].deleted

\* The reusable requests that ReuseDelete has not deleted.
ReuseSlots == {r \in Requests : req[r].kind = "reuse" /\ ~req[r].deleted}

NoSlot(coll, rq, token) ==
    \A i \in 1..Len(coll) : rq[coll[i]].UniqueRequestIdReuse # token

\* What C16 says of a ReuseDelete step apart from the lookup: a call that
\* returns TRUE worked on a live slot that was not in use and carried the
\* token, took exactly that entry out of PendingReuseRequests, deleted the
\* request (it was not deleted before) and touched no other request; a call
\* that returns FALSE changes nothing; and a token that names no slot never
\* comes to name one, so later calls with a deleted token find nothing.
ReuseDeleteStep ==
    /\ (ret'.op = "ReuseDelete" /\ ret'.status = "TRUE") =>
          LET r == ret'.req
              t == ret'.token
          IN  /\ r \in ReuseSlots /\ ~req[r].RequestInUse
              /\ req[r].UniqueRequestIdReuse = t
              /\ Count(PendingReuseRequests, r) = 1
              /\ PendingReuseRequests' =
                     RemoveAt(PendingReuseRequests, IndexOf(PendingReuseRequests, r))
              /\ req'[r].kind = "free" \/ req'[r].deleted
              /\ \A q \in Requests \ {r} : req'[q] = req[q]
              /\ NoSlot(PendingReuseRequests', req', t)
    /\ (ret'.op = "ReuseDelete" /\ ret'.status = "FALSE") =>
          UNCHANGED <<g_ContinuousRequestTargetUniqueId, PendingAsynchronousRequests,
                      PendingReuseRequests, req, sends, cancels, queue,
                      BufferPoolBorrowed, ReferenceCount, ModuleState, issued, completed>>
    /\ \A t \in 1..g_ContinuousRequestTargetUniqueId :
          NoSlot(PendingReuseRequests, req, t) => NoSlot(PendingReuseRequests', req', t)

Outstanding(r) ==
    \E s \in SendsOn(r) : sends[s].reuse /\ sends[s].stage \in BeforeCallback

\* C17: while a send of a slot is outstanding, no ReuseDelete on the slot's
\* token returns TRUE, and a ReuseDelete step leaves the slot in
\* PendingReuseRequests, its RequestInUse set and the request untouched; the
\* request of an outstanding send is a live, undeleted reusable request.
C17_ReuseDeleteRefusedWhileOutstanding ==
    [][/\ ret'.op = "ReuseDelete" =>
            \A r \in ReuseSlots :
                Outstanding(r) =>
                    /\ ret'.status = "TRUE" => /\ ret'.req # r
                                               /\ ret'.token # req[r].UniqueRequestIdReuse
                    /\ req'[r] = req[r] /\ req[r].RequestInUse
                    /\ Count(PendingReuseRequests, r) = 1
                    /\ Count(PendingReuseRequests', r) = 1
       /\ \A s \in 1..Len(sends) :
            (sends[s].reuse /\ sends[s].stage \in BeforeCallback) =>
                sends[s].req \in ReuseSlots]_vars

\* ReuseDelete returned FALSE while the slot's send is at the target.
C17_Witness ==
    /\ ret.op = "ReuseDelete" /\ ret.status = "FALSE"
    /\ \E r \in ReuseSlots :
        /\ AtTarget(r) # {} /\ req[r].RequestInUse
        /\ Count(PendingReuseRequests, r) = 1

\* The unique ids generated so far.
Issued == {issued[i] : i \in 1..Len(issued)}

\* C18: every entry of PendingAsynchronousRequests has a non-zero cancel id,
\* so the zero token matches none; a Cancel call gets past its lookup (takes
\* a reference and calls the target) only for a token that was issued and
\* whose send has not finished its completion; a Cancel that returns TRUE has
\* found a request; and a Cancel whose lookup finds nothing returns FALSE and
\* leaves the collections, the requests and the reference counts unchanged.
C18_CancelOnlyLiveTokens ==
    [][/\ \A i \in 1..Len(PendingAsynchronousRequests) :
            req[PendingAsynchronousRequests[i]].UniqueRequestIdCancel # 0
       /\ \A i \in 1..Len(cancels') :
            /\ cancels'[i].token # 0
            /\ cancels'[i].token \in Issued
            /\ ~cancels'[i].done
       /\ (ret'.op = "Cancel" /\ ret'.status = "TRUE") => ret'.req # NoRequest
       /\ (ret'.op = "Cancel" /\ ret'.req = NoRequest) =>
            /\ ret'.status = "FALSE"
            /\ UNCHANGED <<PendingAsynchronousRequests, PendingReuseRequests, req,
                            sends, cancels, ReferenceCount>>]_vars

\* C19: no step reads or writes PendingAsynchronousRequests,
\* PendingReuseRequests, or the RequestInUse or unique-id fields of a request
\* other threads can reach, without holding DMF_ModuleLock.
C19_AccessUnderLock == lock.unlocked = {}

-----------------------------------------------------------------------------
\* The Module is closing: DMF_ModuleReference fails from here on.
Closing == ModuleState # "Opened"

\* The Methods that return a status and take the guard first.
GuardedMethods == {"Send", "SendSynchronously", "ReuseSend", "ReuseCreate"}

\* C21: a request is added to PendingAsynchronousRequests only by a call that
\* holds a reference to the Module; and once the Module is closing, a call of
\* Send, SendEx, SendSynchronously, ReuseSend, ReuseCreate or Cancel returns
\* failure and creates no request, generates no unique id, borrows no context,
\* adds nothing to either collection, takes no reference and hands nothing
\* to the target.
C21_ClosingRefusesNewWork ==
    [][/\ Len(PendingAsynchronousRequests') > Len(PendingAsynchronousRequests)
            => ~Closing /\ ReferenceCount' > 0
       /\ Closing =>
            /\ g_ContinuousRequestTargetUniqueId' = g_ContinuousRequestTargetUniqueId
            /\ issued' = issued
            /\ \A r \in Requests : req[r].kind = "free" => req'[r].kind = "free"
            /\ Len(PendingAsynchronousRequests') <= Len(PendingAsynchronousRequests)
            /\ Len(PendingReuseRequests') <= Len(PendingReuseRequests)
            /\ BufferPoolBorrowed' <= BufferPoolBorrowed
            /\ ReferenceCount' <= ReferenceCount
            /\ Len(cancels') <= Len(cancels)
            /\ \A r \in Requests : req[r].pc = "none" => req'[r].pc = "none"
            /\ (ret'.op \in GuardedMethods /\ ret'.req = NoRequest)
                  => /\ ret'.status = "STATUS_INVALID_DEVICE_STATE"
                     /\ UNCHANGED <<PendingAsynchronousRequests, PendingReuseRequests,
                                    req, sends, cancels, queue, BufferPoolBorrowed,
                                    ReferenceCount>>
                     /\ lock'.calls = {}
            /\ (ret'.op = "Cancel" /\ ret'.req = NoRequest)
                  => /\ ret'.status = "FALSE"
                     /\ UNCHANGED <<PendingAsynchronousRequests, PendingReuseRequests,
                                    req, sends, cancels, queue, BufferPoolBorrowed,
                                    ReferenceCount>>
                     /\ lock'.calls = {}]_vars

\* A ReuseSend on a closing Module, with a send still in flight, is refused.
C21_Witness ==
    /\ ModuleState = "Closing"
    /\ ret.op = "ReuseSend" /\ ret.status = "STATUS_INVALID_DEVICE_STATE"
    /\ Len(sends) > 0 /\ ReferenceCount > 0
    /\ PendingReuseRequests # <<>>

-----------------------------------------------------------------------------
\* The requests of synchronous calls that are blocked in WdfRequestSend.
Synchronous(rq) == {r \in Requests : rq[r].kind = "sync"}

\* C22: DMF_RequestTarget_SendSynchronously blocks until the target has
\* completed the request and returns its status and byte count; whatever the
\* path, when it returns its request has been destroyed, nothing was added to
\* or removed from PendingAsynchronousRequests and PendingReuseRequests, no
\* context was borrowed, no callback was called, its reference to the Module
\* has been given back, and on an error the byte count it reports is 0.
C22_SynchronousSendSelfContained ==
    [][/\ (Synchronous(req') # Synchronous(req) \/ ret'.op = "SendSynchronously")
            => UNCHANGED <<PendingAsynchronousRequests, PendingReuseRequests,
                           BufferPoolBorrowed, sends, cancels, queue,
                           g_ContinuousRequestTargetUniqueId>>
       /\ ret'.op = "SendSynchronously"
            => LET blocked == ret'.req # NoRequest /\ ret'.req \in Synchronous(req)
               IN  /\ ret'.req # NoRequest => req'[ret'.req] = FreeRequest
                   /\ \A r \in Requests \ {ret'.req} : req'[r] = req[r]
                   /\ ReferenceCount' = ReferenceCount - (IF blocked THEN 1 ELSE 0)
                   /\ ret'.status # "STATUS_SUCCESS" => ret'.bytes = 0
                   /\ ret'.status = "STATUS_SUCCESS" => blocked]_vars

-----------------------------------------------------------------------------
-----------------------------------------------------------------------------
\* The last step was a ReuseSend refused because the token's request is in
\* PendingReuseRequests with RequestInUse set.
RefusedInUse ==
    /\ ret.op = "ReuseSend" /\ ret.req # NoRequest
    /\ ret.req \in ReuseSlots /\ Count(PendingReuseRequests, ret.req) > 0
    /\ req[ret.req].RequestInUse
    /\ ret.status \notin {"STATUS_SUCCESS", "STATUS_INSUFFICIENT_RESOURCES",
                          "STATUS_UNSUCCESSFUL"}

\* The last step was a ReuseSend refused because no request in
\* PendingReuseRequests carries the token.
RefusedNotFound ==
    /\ ret.op = "ReuseSend" /\ ret.req = NoRequest
    /\ ret.status \notin {"STATUS_SUCCESS", "STATUS_INVALID_DEVICE_STATE"}

\* C24: the status DMF_RequestTarget_ReuseSend returns when the token's
\* request is in use is never the status it returns when the token names no
\* request (STATUS_OBJECTID_NOT_FOUND).
C24_InUseDistinctFromNotFound ==
    /\ RefusedNotFound => ret.status = "STATUS_OBJECTID_NOT_FOUND"
    /\ RefusedInUse => ret.status # "STATUS_OBJECTID_NOT_FOUND"

-----------------------------------------------------------------------------
\* Buffer extraction: RequestTarget_CompletionParamsInputBufferAndOutputBufferGet.

NULL == "NULL"

\* The NULL WDFMEMORY handle.
NoMemory == [Buffer |-> NULL, Size |-> 0]

RequestTypes ==
    {"ContinuousRequestTarget_RequestType_Read",
     "ContinuousRequestTarget_RequestType_Write",
     "ContinuousRequestTarget_RequestType_Ioctl",
     "ContinuousRequestTarget_RequestType_InternalIoctl"}

\* A WDFMEMORY wrapping a caller's buffer (WdfMemoryCreatePreallocated): the
\* buffer and its size, the nominal capacity.
Memory(buffer) == {[Buffer |-> buffer, Size |-> n] : n \in 1..MaxLength}

\* The lengths the target can report for a transfer through the memory.
Lengths(memory) == 0..memory.Size

\* WdfMemoryGetBuffer(memory, &size).
WdfMemoryGetBuffer(memory) == [Buffer |-> memory.Buffer, Size |-> memory.Size]

\* The completion parameters of a request formatted for the request type:
\* Parameters is a union, and the member that is valid is the one of the type
\* the request was formatted for.
CompletionParamsOf(type) ==
    IF type = "ContinuousRequestTarget_RequestType_Read"
    THEN {[Parameters |-> [Read |-> [Buffer |-> m, Length |-> n]]] :
            <<m, n>> \in {mn \in (Memory("ResponseBuffer") \cup {NoMemory}) \X (0..MaxLength) :
                              mn[2] \in Lengths(mn[1])}}
    ELSE IF type = "ContinuousRequestTarget_RequestType_Write"
    THEN {[Parameters |-> [Write |-> [Buffer |-> m, Length |-> n]]] :
            <<m, n>> \in {mn \in (Memory("RequestBuffer") \cup {NoMemory}) \X (0..MaxLength) :
                              mn[2] \in Lengths(mn[1])}}
    ELSE {[Parameters |-> [Ioctl |-> [Input |-> [Buffer |-> i],
                                     Output |-> [Buffer |-> m, Length |-> n]]]] :
            <<i, m, n>> \in {imn \in (Memory("RequestBuffer") \cup {NoMemory}) \X
                                      (Memory("ResponseBuffer") \cup {NoMemory}) \X
                                      (0..MaxLength) :
                                 imn[3] \in Lengths(imn[2])}}

\* An extraction that reports the size of the output memory for an IOCTL.
RequestTarget_CompletionParamsInputBufferAndOutputBufferGet_Capacity(params, type) ==
    LET none == [InputBuffer |-> NULL, InputBufferSize |-> 0,
                 OutputBuffer |-> NULL, OutputBufferSize |-> 0]
    IN  IF type = "ContinuousRequestTarget_RequestType_Read"
        THEN LET outputMemory == params.Parameters.Read.Buffer
             IN  [none EXCEPT !.OutputBufferSize = params.Parameters.Read.Length,
                              !.OutputBuffer = IF outputMemory # NoMemory
                                               THEN WdfMemoryGetBuffer(outputMemory).Buffer
                                               ELSE NULL]
        ELSE IF type = "ContinuousRequestTarget_RequestType_Write"
        THEN LET inputMemory == params.Parameters.Write.Buffer
             IN  [none EXCEPT !.InputBufferSize = params.Parameters.Write.Length,
                              !.InputBuffer = IF inputMemory # NoMemory
                                              THEN WdfMemoryGetBuffer(inputMemory).Buffer
                                              ELSE NULL]
        ELSE LET inputMemory == params.Parameters.Ioctl.Input.Buffer
                 outputMemory == params.Parameters.Ioctl.Output.Buffer
                 in == IF inputMemory # NoMemory
                       THEN [none EXCEPT
                               !.InputBuffer = WdfMemoryGetBuffer(inputMemory).Buffer,
                               !.InputBufferSize = WdfMemoryGetBuffer(inputMemory).Size]
                       ELSE none
             IN  IF outputMemory # NoMemory
                 THEN [in EXCEPT
                         !.OutputBuffer = WdfMemoryGetBuffer(outputMemory).Buffer,
                         !.OutputBufferSize = WdfMemoryGetBuffer(outputMemory).Size]
                 ELSE in

\* The switch on RequestType: everything starts as NULL / 0; Read fills the
\* output side, Write the input side, Ioctl and InternalIoctl both, the output
\* size being overwritten with Parameters.Ioctl.Output.Length.
RequestTarget_CompletionParamsInputBufferAndOutputBufferGet(params, type) ==
    LET none == [InputBuffer |-> NULL, InputBufferSize |-> 0,
                 OutputBuffer |-> NULL, OutputBufferSize |-> 0]
    IN  IF type = "ContinuousRequestTarget_RequestType_Read"
        THEN LET outputMemory == params.Parameters.Read.Buffer
             IN  [none EXCEPT !.OutputBufferSize = params.Parameters.Read.Length,
                              !.OutputBuffer = IF outputMemory # NoMemory
                                               THEN WdfMemoryGetBuffer(outputMemory).Buffer
                                               ELSE NULL]
        ELSE IF type = "ContinuousRequestTarget_RequestType_Write"
        THEN LET inputMemory == params.Parameters.Write.Buffer
             IN  [none EXCEPT !.InputBufferSize = params.Parameters.Write.Length,
                              !.InputBuffer = IF inputMemory # NoMemory
                                              THEN WdfMemoryGetBuffer(inputMemory).Buffer
                                              ELSE NULL]
        ELSE LET inputMemory == params.Parameters.Ioctl.Input.Buffer
                 outputMemory == params.Parameters.Ioctl.Output.Buffer
                 in == IF inputMemory # NoMemory
                       THEN [none EXCEPT
                               !.InputBuffer = WdfMemoryGetBuffer(inputMemory).Buffer,
                               !.InputBufferSize = WdfMemoryGetBuffer(inputMemory).Size]
                       ELSE none
             IN  IF outputMemory # NoMemory
                 THEN [in EXCEPT
                         !.OutputBuffer = WdfMemoryGetBuffer(outputMemory).Buffer,
                         !.OutputBufferSize = params.Parameters.Ioctl.Output.Length]
                 ELSE in

\* One completion reaching RequestTarget_ProcessAsynchronousRequestRoot: the
\* request type the send recorded and the completion parameters of the request.
InitExtraction ==
    /\ g_ContinuousRequestTargetUniqueId = 0
    /\ PendingAsynchronousRequests = <<>>
    /\ PendingReuseRequests = <<>>
    /\ req = [r \in Requests |-> FreeRequest]
    /\ sends = <<>>
    /\ cancels = <<>>
    /\ queue = <<>>
    /\ BufferPoolBorrowed = 0
    /\ ReferenceCount = 0
    /\ ModuleState = "Opened"
    /\ PassiveLevel = FALSE
    /\ issued = <<>>
    /\ completed = {}
    /\ ret = NoRet
    /\ lock = LockUse({}, {})
    /\ IoTarget = "WDFIOTARGET"
    /\ RequestType \in RequestTypes
    /\ CompletionParams \in CompletionParamsOf(RequestType)
    /\ Arguments = <<>>
    /\ deletes = <<>>
    /\ ScheduledTask_Idle

\* "Get the input and output buffers", ahead of the Client's callback.
RequestTarget_ProcessAsynchronousRequestRoot_BuffersGet ==
    /\ Arguments = <<>>
    /\ Arguments' = <<RequestTarget_CompletionParamsInputBufferAndOutputBufferGet(
                          CompletionParams, RequestType)>>
    /\ UNCHANGED <<g_ContinuousRequestTargetUniqueId, PendingAsynchronousRequests,
                   PendingReuseRequests, req, sends, cancels, queue, BufferPoolBorrowed,
                   ReferenceCount, ModuleState, PassiveLevel, issued, completed, ret,
                   lock, IoTarget, RequestType, CompletionParams, deletes, scheduledTask>>

NextExtraction == RequestTarget_ProcessAsynchronousRequestRoot_BuffersGet

SpecExtraction == InitExtraction /\ [][NextExtraction]_vars

-----------------------------------------------------------------------------
\* C26: RequestInUse is cleared before the callback is called: while the
\* callback of a reuse send runs, the lookup of a ReuseSend on the same token
\* succeeds (unless another call has taken the slot meanwhile), and the
\* completion that finishes afterwards neither removes the request from
\* PendingReuseRequests nor deletes it.
C26_ResendFromCallback ==
    [][\A s \in 1..Len(sends) :
        (sends[s].reuse /\ sends[s].stage = "incallback") =>
            LET r == sends[s].req IN
            /\ (r \in ReuseSlots /\ SendsOn(r) = {s} /\ req[r].pc = "none")
                  => /\ ~req[r].RequestInUse
                     /\ Count(PendingReuseRequests, r) = 1
                     /\ LET search == RequestTarget_PendingCollectionReuseListSearch(
                                          PendingReuseRequests, req,
                                          req[r].UniqueRequestIdReuse)
                        IN  search.found /\ search.request = r
            /\ sends' = RemoveAt(sends, s)
                  => /\ PendingReuseRequests' = PendingReuseRequests
                     /\ req' = req]_vars

\* A second send of the slot is at the target while the callback of the first
\* has not returned, and the slot is in PendingReuseRequests.
C26_Witness ==
    \E r \in ReuseSlots :
        /\ Count(PendingReuseRequests, r) = 1
        /\ \E s, t \in SendsOn(r) :
              /\ sends[s].reuse /\ sends[s].stage = "incallback" /\ sends[s].cbCount = 1
              /\ sends[t].reuse /\ sends[t].stage = "atTarget"

-----------------------------------------------------------------------------
\* The completion of the send the cancel token was returned for has detached
\* the request: it is about to call the callback, is inside it, or has finished.
Detached(token) ==
    \/ token \in completed
    \/ \E s \in 1..Len(sends) :
            sends[s].token = token /\ sends[s].stage \in {"detached", "incallback"}

\* C27: the completion removes the request from PendingAsynchronousRequests as
\* its first step, before the callback and before the request is deleted, and
\* a request that is not in the collection is not an error; hence a Cancel on
\* the token made from inside the callback, or later, finds no request and
\* returns FALSE.
C27_DetachedBeforeCallback ==
    [][/\ \A s \in 1..Len(sends) :
            LET r == sends[s].req IN
            /\ (Len(sends') = Len(sends) /\ sends'[s].stage = "incallback"
                    /\ sends[s].stage # "incallback")
                  => sends[s].stage = "detached"
            /\ sends' = RemoveAt(sends, s) => sends[s].stage = "incallback"
            /\ (Len(sends') = Len(sends) /\ sends'[s].stage = "detached"
                    /\ sends[s].stage # "detached")
                  => /\ Count(PendingAsynchronousRequests', r) =
                            IF Count(PendingAsynchronousRequests, r) > 0
                            THEN Count(PendingAsynchronousRequests, r) - 1 ELSE 0
                     /\ sends'[s].cbCount = 0
       /\ \A token \in Tokens \ {0} :
            Detached(token) =>
                ~RequestTarget_PendingCollectionListSearchAndReference(
                     PendingAsynchronousRequests, req, token).found
       /\ (ret'.op = "Cancel" /\ ret'.done) => ret'.status = "FALSE"]_vars

-----------------------------------------------------------------------------
\* The send calls that have taken a context with DMF_BufferPool_Get and have
\* not yet returned.
HoldingContext == {r \in Requests : req[r].pc = "registered"}

\* C28: every accepted asynchronous send holds exactly one context of
\* DmfModuleBufferPoolContext, taken by its send call before WdfRequestSend
\* and put back once, after its callback has returned: the number of contexts
\* borrowed is always the number of accepted sends whose completion has not
\* finished plus the send calls on their way to WdfRequestSend, and it is
\* zero when there are none.
C28_OneContextPerSend ==
    [][/\ BufferPoolBorrowed = Len(sends) + Cardinality(HoldingContext)
       /\ BufferPoolBorrowed' < BufferPoolBorrowed
            => /\ BufferPoolBorrowed' = BufferPoolBorrowed - 1
               /\ \E s \in 1..Len(sends) :
                     sends[s].stage = "incallback" /\ sends' = RemoveAt(sends, s)
       /\ Len(sends') > Len(sends)
            => /\ BufferPoolBorrowed' = BufferPoolBorrowed
               /\ Cardinality(HoldingContext) > 0]_vars

-----------------------------------------------------------------------------
\* The holders of a reference on the Module: the accepted sends whose
\* completion has not finished, the send calls that have not returned and the
\* DMF_RequestTarget_Cancel calls that have not returned.
GuardHolders == Len(sends) + Cardinality(InProgress) + Len(cancels)

\* C29: the references on the Module are balanced.  A send call takes one; a
\* failed send gives it back before it returns and an accepted send keeps it
\* until the last step of its completion, which gives it back once; the
\* synchronous send, Cancel, ReuseCreate, IoTargetSet and IoTargetClear give
\* theirs back before they return.  The count is the number of accepted sends
\* not fully completed plus the calls in progress, is never negative and is
\* zero when nothing is outstanding.
C29_GuardBalanced ==
    [][/\ ReferenceCount = GuardHolders /\ ReferenceCount' = GuardHolders'
       /\ ReferenceCount >= 0 /\ ReferenceCount' >= 0
       /\ (sends' = <<>> /\ InProgress' = {} /\ cancels' = <<>>) => ReferenceCount' = 0
       /\ Len(sends') < Len(sends)
            => /\ ReferenceCount' = ReferenceCount - 1
               /\ \E s \in 1..Len(sends) :
                     sends[s].stage = "incallback" /\ sends' = RemoveAt(sends, s)
       /\ ret'.op \in {"ReuseCreate", "IoTargetSet", "IoTargetClear"}
            => ReferenceCount' = ReferenceCount
       /\ ret'.op \in {"SendSynchronously", "Cancel"}
            => ReferenceCount' <= ReferenceCount]_vars

\* A send has completed and given its reference back while another send is
\* outstanding and a Cancel call is in progress.
C29_Witness ==
    /\ completed # {}
    /\ Len(sends) > 0 /\ Len(cancels) > 0
    /\ ReferenceCount = 2

-----------------------------------------------------------------------------
\* Deferred completion with a bounded queue.

\* DMF_QueuedWorkItem_Enqueue: copies the snapshot into a buffer of the queue
\* and schedules the worker.  The queue has MaxQueued preallocated buffers and
\* EnableLookAside = TRUE: beyond them a buffer is allocated from nonpaged
\* pool, which can fail (allocated = FALSE); the enqueue is then refused.  A
\* buffer goes back to the queue when the worker's callback has returned.
DMF_QueuedWorkItem_Enqueue(q, s, allocated) ==
    IF Len(q) < MaxQueued \/ allocated
    THEN [ntStatus |-> "STATUS_SUCCESS", queue |-> Append(q, s)]
    ELSE [ntStatus |-> "STATUS_INSUFFICIENT_RESOURCES", queue |-> q]

\* RequestTarget_CompletionRoutinePassive[Reuse]: the target has completed the
\* request at DISPATCH_LEVEL.  The routine fills workitemContext, a local
\* variable, calls DMF_QueuedWorkItem_Enqueue and returns; the NTSTATUS of the
\* enqueue is not looked at.  After a refused enqueue nothing refers to the
\* completion any more.
RequestTarget_CompletionRoutinePassive ==
    /\ \E s \in 1..Len(sends), allocated \in BOOLEAN,
          status \in {"STATUS_SUCCESS", "STATUS_UNSUCCESSFUL", "STATUS_CANCELLED"} :
        /\ sends[s].stage = "atTarget"
        /\ completionRoutineSingle(sends[s]) = "RequestTarget_CompletionRoutinePassive"
        /\ status = "STATUS_CANCELLED" => sends[s].cancelled
        /\ status = "STATUS_UNSUCCESSFUL" => ~sends[s].cancelled
        /\ LET enqueue == DMF_QueuedWorkItem_Enqueue(queue, s, allocated)
           IN  /\ queue' = enqueue.queue
               /\ sends' = [sends EXCEPT
                                ![s].status = status,
                                ![s].stage = IF enqueue.ntStatus = "STATUS_SUCCESS"
                                             THEN "queued" ELSE "dropped"]
    /\ ret' = NoRet
    /\ lock' = LockUse({}, {})
    /\ UNCHANGED <<g_ContinuousRequestTargetUniqueId, PendingAsynchronousRequests,
                   PendingReuseRequests, req, cancels, BufferPoolBorrowed, ReferenceCount,
                   ModuleState, PassiveLevel, issued, completed>>
    /\ UNCHANGED <<IoTarget, extraction, deletes, scheduledTask>>

\* A Module whose completions are deferred to PASSIVE_LEVEL.
InitDeferred ==
    /\ g_ContinuousRequestTargetUniqueId = 0
    /\ PendingAsynchronousRequests = <<>>
    /\ PendingReuseRequests = <<>>
    /\ req = [r \in Requests |-> FreeRequest]
    /\ sends = <<>>
    /\ cancels = <<>>
    /\ queue = <<>>
    /\ BufferPoolBorrowed = 0
    /\ ReferenceCount = 0
    /\ ModuleState = "Opened"
    /\ PassiveLevel = TRUE
    /\ issued = <<>>
    /\ completed = {}
    /\ ret = NoRet
    /\ lock = LockUse({}, {})
    /\ IoTarget = "WDFIOTARGET"
    /\ RequestType = "none"
    /\ CompletionParams = "none"
    /\ Arguments = <<>>
    /\ deletes = <<>>
    /\ ScheduledTask_Idle

NextDeferred ==
    \/ DMF_RequestTarget_ReuseCreate
    \/ DMF_RequestTarget_SendEx
    \/ RequestTarget_RequestCreateAndSend_Send
    \/ DMF_RequestTarget_ReuseSend
    \/ RequestTarget_RequestSendReuse_Send
    \/ RequestTarget_CompletionRoutinePassive
    \/ RequestTarget_ProcessAsynchronousRequestRoot_Detach
    \/ RequestTarget_ProcessAsynchronousRequestRoot_Callback
    \/ RequestTarget_ProcessAsynchronousRequestRoot_Finish

\* The worker of DmfModuleQueuedWorkitemSingle runs whenever the queue is not
\* empty, the Client's callback returns and
\* RequestTarget_ProcessAsynchronousRequestRoot runs to its end.
FairnessDeferred ==
    /\ WF_vars(RequestTarget_ProcessAsynchronousRequestRoot_Detach)
    /\ WF_vars(RequestTarget_ProcessAsynchronousRequestRoot_Callback)
    /\ WF_vars(RequestTarget_ProcessAsynchronousRequestRoot_Finish)

SpecDeferred == InitDeferred /\ [][NextDeferred]_vars /\ FairnessDeferred

\* The send with cancel token t has been completed by the target and its
\* completion has not finished.
CompletedByTarget(t) ==
    \E s \in 1..Len(sends) : sends[s].token = t /\ sends[s].stage # "atTarget"

\* C30: under fairness every accepted send that the target has completed
\* eventually has its whole completion run (detach, callback, context put
\* back, request deleted or released, reference given back), also when the
\* completion goes through the bounded deferred queue: an enqueue the queue
\* cannot accept does not make the completion disappear.
C30_CompletionEventuallyRuns ==
    \A t \in 1..MaxUniqueId : CompletedByTarget(t) ~> (t \in completed)

-----------------------------------------------------------------------------
\* Termination of Close.

\* A DMF_RequestTarget_ReuseDelete call that finds its request and deletes it.
DMF_RequestTarget_ReuseDelete_Deletes ==
    /\ DMF_RequestTarget_ReuseDelete
    /\ Len(PendingReuseRequests') < Len(PendingReuseRequests)

NextClose ==
    \/ DMF_RequestTarget_ReuseCreate
    \/ DMF_RequestTarget_ReuseDelete
    \/ DMF_RequestTarget_SendEx
    \/ RequestTarget_RequestCreateAndSend_Send
    \/ DMF_RequestTarget_ReuseSend
    \/ RequestTarget_RequestSendReuse_Send
    \/ RequestTarget_CompletionRoutine
    \/ RequestTarget_ProcessAsynchronousRequestRoot_Detach
    \/ RequestTarget_ProcessAsynchronousRequestRoot_Callback
    \/ RequestTarget_ProcessAsynchronousRequestRoot_Finish
    \/ DMF_Module_Close
    \/ DMF_RequestTarget_Close_Pending
    \/ DMF_RequestTarget_Close_Reuse

\* Every call in progress goes on to its end, the target completes every
\* request it has accepted, each completion runs to its end, the Client
\* deletes the reusable requests it created, and the polling loops of
\* DMF_RequestTarget_Close keep polling.
FairnessClose ==
    /\ WF_vars(RequestTarget_RequestCreateAndSend_Send)
    /\ WF_vars(RequestTarget_RequestSendReuse_Send)
    /\ WF_vars(RequestTarget_CompletionRoutine)
    /\ WF_vars(RequestTarget_ProcessAsynchronousRequestRoot_Detach)
    /\ WF_vars(RequestTarget_ProcessAsynchronousRequestRoot_Callback)
    /\ WF_vars(RequestTarget_ProcessAsynchronousRequestRoot_Finish)
    /\ WF_vars(DMF_RequestTarget_ReuseDelete_Deletes)
    /\ WF_vars(DMF_RequestTarget_Close_Pending)
    /\ WF_vars(DMF_RequestTarget_Close_Reuse)

SpecClose == Init /\ [][NextClose]_vars /\ FairnessClose

\* C31: DMF_RequestTarget_Close terminates.  Once the Module is being closed,
\* if the target completes every accepted request and the Client deletes every
\* reusable request, Close returns, whatever was called before, sends that
\* failed part-way included.
C31_CloseTerminates == (ModuleState = "Closing") ~> (ModuleState = "Closed")

-----------------------------------------------------------------------------
\* A WDFCOLLECTION that holds no request twice.
NoDuplicates(coll) ==
    \A i, j \in 1..Len(coll) : i # j => coll[i] # coll[j]

\* A WDFCOLLECTION none of whose requests WdfObjectDelete has been called on.
NoDeleted(coll) ==
    \A i \in 1..Len(coll) : req[coll[i]].kind # "free" /\ ~req[coll[i]].deleted

\* C32: PendingAsynchronousRequests and PendingReuseRequests never hold a
\* request twice and never hold a deleted request: a request leaves its
\* collection before it is deleted, and a reusable request is not registered
\* again while an earlier entry for it is still there.
C32_CollectionsHoldLiveRequestsOnce ==
    /\ NoDuplicates(PendingAsynchronousRequests)
    /\ NoDuplicates(PendingReuseRequests)
    /\ NoDeleted(PendingAsynchronousRequests)
    /\ NoDeleted(PendingReuseRequests)

-----------------------------------------------------------------------------
\* The last step was a DMF_RequestTarget_ReuseSend that
\* RequestTarget_PendingCollectionReuseListSearch turned down.
RejectedAtLookup(r) == r.op = "ReuseSend" /\ r.status = "STATUS_OBJECTID_NOT_FOUND"

\* C33: a ReuseSend rejected at the lookup (no request with the token, or the
\* request is in use) leaves RequestInUse of every request as it was: the
\* Exit block of the rejected call does not clear the flag of the request
\* whose earlier send is outstanding, so the lookup of one more ReuseSend on
\* that token fails as well.
C33_RejectedReuseSendKeepsInUse ==
    [][RejectedAtLookup(ret')
        => /\ \A r \in Requests : req'[r].RequestInUse = req[r].RequestInUse
           /\ PendingReuseRequests' = PendingReuseRequests
           /\ sends' = sends
           /\ (ret'.req # NoRequest /\ req[ret'.req].RequestInUse)
                => ~RequestTarget_PendingCollectionReuseListSearch(
                        PendingReuseRequests', req',
                        req'[ret'.req].UniqueRequestIdReuse).found]_vars

\* A ReuseSend has just been rejected because the request is in use, and the
\* earlier send is still outstanding.
C33_Witness ==
    /\ RejectedAtLookup(ret)
    /\ ret.req # NoRequest
    /\ req[ret.req].RequestInUse
    /\ \E s \in 1..Len(sends) : sends[s].req = ret.req /\ sends[s].stage = "atTarget"

-----------------------------------------------------------------------------
\* DMF_RequestTarget_ReuseDelete step by step, next to concurrent callers.
\* The Method takes DMF_ModuleLock twice: once inside
\* RequestTarget_PendingCollectionReuseListSearch, which acquires the request by
\* setting RequestInUse, and once inside
\* RequestTarget_PendingCollectionListSearchAndRemove.

\* The lookup: on success the call goes on with the request it has acquired.
DMF_RequestTarget_ReuseDelete_Search ==
    /\ ModuleState # "Closed"
    /\ Len(deletes) < MaxDeletes
    /\ \E token \in Tokens :
        LET search == RequestTarget_PendingCollectionReuseListSearch(
                          PendingReuseRequests, req, token)
        IN  /\ req' = search.rq
            /\ IF search.found
               THEN /\ deletes' = Append(deletes, search.request)
                    /\ ret' = NoRet
               ELSE /\ deletes' = deletes
                    /\ ret' = Ret("ReuseDelete", "FALSE", NoRequest, 0, FALSE)
    /\ lock' = LockUse({"RequestTarget_PendingCollectionReuseListSearch"}, {})
    /\ cancels' = MarkDangling(cancels, req')
    /\ UNCHANGED <<g_ContinuousRequestTargetUniqueId, PendingAsynchronousRequests,
                   PendingReuseRequests, sends, queue, BufferPoolBorrowed, ReferenceCount,
                   ModuleState, PassiveLevel, issued, completed>>
    /\ UNCHANGED <<IoTarget, extraction, scheduledTask>>

\* The rest of the call: the request leaves PendingReuseRequests, then
\* WdfObjectDelete and WdfObjectDereference.
DMF_RequestTarget_ReuseDelete_Remove ==
    /\ \E i \in 1..Len(deletes) :
        LET r == deletes[i]
            rem == RequestTarget_PendingCollectionListSearchAndRemove(
                       PendingReuseRequests, req, r)
        IN  /\ PendingReuseRequests' = rem.coll
            /\ req' = WdfObjectDereference(WdfObjectDelete(rem.rq, r), r)
            /\ deletes' = RemoveAt(deletes, i)
            /\ ret' = Ret("ReuseDelete", "TRUE", r, 0, FALSE)
    /\ lock' = LockUse({"RequestTarget_PendingCollectionListSearchAndRemove"}, {})
    /\ cancels' = MarkDangling(cancels, req')
    /\ UNCHANGED <<g_ContinuousRequestTargetUniqueId, PendingAsynchronousRequests, sends,
                   queue, BufferPoolBorrowed, ReferenceCount, ModuleState, PassiveLevel,
                   issued, completed>>
    /\ UNCHANGED <<IoTarget, extraction, scheduledTask>>

NextReuse ==
    \/ DMF_RequestTarget_ReuseCreate
    \/ DMF_RequestTarget_ReuseDelete_Search
    \/ DMF_RequestTarget_ReuseDelete_Remove
    \/ DMF_RequestTarget_ReuseSend
    \/ RequestTarget_RequestSendReuse_Send
    \/ RequestTarget_CompletionRoutine
    \/ RequestTarget_ProcessAsynchronousRequestRoot_Detach
    \/ RequestTarget_ProcessAsynchronousRequestRoot_Callback
    \/ RequestTarget_ProcessAsynchronousRequestRoot_Finish

SpecReuse == Init /\ [][NextReuse]_vars

\* The callers that have acquired the reusable request r and not let go of it:
\* ReuseDelete calls past their lookup, the ReuseSend call past its lookup, and
\* the sends whose completion has not yet cleared RequestInUse.
Acquirers(r) ==
    Cardinality({i \in 1..Len(deletes) : deletes[i] = r})
    + Cardinality({q \in {r} : req[q].pc = "registered"})
    + Cardinality({s \in 1..Len(sends) :
                       /\ sends[s].req = r
                       /\ sends[s].stage \in {"atTarget", "queued", "completing",
                                               "detached"}})

\* C34: of two concurrent ReuseDelete calls with the same token, or a
\* ReuseDelete and a ReuseSend with the same token, only one acquires the
\* request: the request is deleted at most once, by a call that found it in
\* PendingReuseRequests, and it is never with the target, or on its way to
\* the target, when ReuseDelete deletes it.
C34_OneCallAcquiresTheRequest ==
    [][/\ \A r \in Requests : Acquirers(r) <= 1
       /\ \A r \in Requests : Acquirers(r) = 1 => req[r].RequestInUse
       /\ (ret'.op = "ReuseDelete" /\ ret'.status = "TRUE")
            => LET r == ret'.req IN
               /\ req[r].kind = "reuse" /\ ~req[r].deleted
               /\ Len(PendingReuseRequests') = Len(PendingReuseRequests) - 1
               /\ req[r].pc = "none"
               /\ \A s \in 1..Len(sends) :
                     sends[s].req = r => sends[s].stage = "incallback"
               /\ \A i \in 1..Len(deletes') : deletes'[i] # r]_vars

\* A ReuseDelete call has acquired a request, and a ReuseSend or a second
\* ReuseDelete with the same token has just been turned down.
C34_Witness ==
    /\ Len(deletes) = 1
    /\ ret.status \in {"FALSE", "STATUS_OBJECTID_NOT_FOUND"}
    /\ ret.op \in {"ReuseDelete", "ReuseSend"}
    /\ ret.op = "ReuseSend" => ret.req = deletes[1]

-----------------------------------------------------------------------------
\* The send call on request r reaches WdfRequestSend in this step:
\* WdfRequestAllocateTimer, if there is a timeout, has succeeded.
CallsWdfRequestSend(r) ==
    /\ req[r].pc = "registered"
    /\ ret'.req = r
    /\ ret'.op \in {"Send", "ReuseSend"}
    /\ ret'.status \in {"STATUS_SUCCESS", "STATUS_UNSUCCESSFUL"}

\* C35: one send call creates, formats and sends its request for one and the
\* same target: with DMF_RequestTarget_IoTargetClear and
\* DMF_RequestTarget_IoTargetSet running next to a send in progress, the
\* request is handed to WdfRequestSend with the target it was formatted for,
\* and moduleContext->IoTarget is not NULL there.
C35_OneTargetPerSend ==
    [][\A r \in Requests :
          CallsWdfRequestSend(r) => IoTarget = req[r].target /\ IoTarget # "NULL"]_vars

-----------------------------------------------------------------------------
\* The ScheduledTask Module (Dmf_ScheduledTask.c).

\* The RequestTarget instance of the specifications that exercise ScheduledTask only.
RequestTarget_Idle ==
    /\ g_ContinuousRequestTargetUniqueId = 0
    /\ PendingAsynchronousRequests = <<>>
    /\ PendingReuseRequests = <<>>
    /\ req = [r \in Requests |-> FreeRequest]
    /\ sends = <<>>
    /\ cancels = <<>>
    /\ queue = <<>>
    /\ BufferPoolBorrowed = 0
    /\ ReferenceCount = 0
    /\ ModuleState = "Opened"
    /\ PassiveLevel = TRUE
    /\ issued = <<>>
    /\ completed = {}
    /\ ret = NoRet
    /\ lock = LockUse({}, {})
    /\ IoTarget = "WDFIOTARGET"
    /\ RequestType = "none"
    /\ CompletionParams = "none"
    /\ Arguments = <<>>
    /\ deletes = <<>>

\* DMF_Rundown_Reference succeeds until DMF_Rundown_EndAndWait and again
\* after DMF_Rundown_Start.
DMF_Rundown_Reference(rundown) == rundown = "started"

\* ScheduledTask_TimerRestart: the context and the timer after it.
ScheduledTask_TimerRestart(context, timer, rundown) ==
    IF context.DisableRetries
    THEN [moduleContext |-> context, Timer |-> timer]
    ELSE IF DMF_Rundown_Reference(rundown)
         THEN [moduleContext |-> [context EXCEPT !.TimerIsStarted = TRUE],
               Timer |-> "pending"]
         ELSE [moduleContext |-> context, Timer |-> timer]

\* ScheduledTask_ClientWorkDo, where callbackResult is what the Client's
\* callback returns if it is called.
ScheduledTask_ClientWorkDo(context, timer, rundown, callbackResult) ==
    IF context.WorkIsCompleted
    THEN [moduleContext |-> context, Timer |-> timer,
          ran |-> FALSE, workResult |-> "Success"]
    ELSE IF callbackResult = "Success"
         THEN [moduleContext |-> [context EXCEPT !.WorkIsCompleted = TRUE],
               Timer |-> timer, ran |-> TRUE, workResult |-> callbackResult]
         ELSE IF callbackResult \in {"SuccessButTryAgain", "FailButTryAgain"}
              THEN [moduleContext |-> ScheduledTask_TimerRestart(context, timer, rundown).moduleContext,
                    Timer |-> ScheduledTask_TimerRestart(context, timer, rundown).Timer,
                    ran |-> TRUE, workResult |-> callbackResult]
              ELSE [moduleContext |-> context, Timer |-> timer,
                    ran |-> TRUE, workResult |-> callbackResult]

\* Methods are called on an open Module that is not closing.
MethodAllowed == cancelling \notin {"Close", "Closed"}

\* ScheduledTask_TimerHandler: the timer expires and its callback runs.
ScheduledTask_TimerHandler ==
    /\ Timer = "pending"
    /\ cancelling # "Closed"
    /\ \E callbackResult \in ScheduledTask_Result_Type :
         LET work == ScheduledTask_ClientWorkDo(
                         [moduleContext EXCEPT !.TimerIsStarted = FALSE],
                         "stopped", DmfModuleRundown, callbackResult)
         IN  /\ moduleContext' = work.moduleContext
             /\ Timer' = work.Timer
             /\ last' = [NoStep EXCEPT !.op = "TimerHandler",
                                       !.ran = work.ran,
                                       !.workResult = work.workResult,
                                       !.assertion = moduleContext.TimerIsStarted]
    /\ UNCHANGED <<moduleConfig, DeferredOnDemand, DmfModuleRundown, power, callers,
                   cancelling, acceptedCalls, requestTarget>>

\* ScheduledTask_DeferredHandlerOnDemand: one iteration of the do-while loop
\* of the on-demand workitem (the first one begins the workitem's callback).
ScheduledTask_DeferredHandlerOnDemand ==
    /\ DeferredOnDemand.running \/ DeferredOnDemand.queued
    /\ cancelling # "Closed"
    /\ \E callbackResult \in ScheduledTask_Result_Type :
         LET work ==
                 IF ~DMF_Rundown_Reference(DmfModuleRundown)
                 THEN [moduleContext |-> moduleContext, Timer |-> Timer,
                       ran |-> FALSE, workResult |-> "none"]
                 ELSE IF moduleContext.OnDemandCallbackContext # "NULL"
                      THEN [moduleContext |-> moduleContext, Timer |-> Timer,
                            ran |-> TRUE, workResult |-> callbackResult]
                      ELSE ScheduledTask_ClientWorkDo(moduleContext, Timer,
                                                      DmfModuleRundown, callbackResult)
             pendingCalls == work.moduleContext.NumberOfPendingCalls - 1
         IN  /\ moduleContext' = [work.moduleContext EXCEPT !.NumberOfPendingCalls = pendingCalls]
             /\ Timer' = work.Timer
             /\ DeferredOnDemand' =
                    [queued |-> IF DeferredOnDemand.running THEN DeferredOnDemand.queued ELSE FALSE,
                     running |-> pendingCalls > 0]
             /\ acceptedCalls' = IF acceptedCalls = <<>> THEN acceptedCalls ELSE Tail(acceptedCalls)
             /\ last' = [NoStep EXCEPT !.op = "DeferredHandlerOnDemand",
                                       !.ran = work.ran,
                                       !.workResult = work.workResult,
                                       !.matched = IF acceptedCalls = <<>> THEN "none" ELSE Head(acceptedCalls),
                                       !.assertion = DeferredOnDemand.running
                                                     \/ moduleContext.NumberOfPendingCalls > 0]
    /\ UNCHANGED <<moduleConfig, DmfModuleRundown, power, callers, cancelling, requestTarget>>

\* The body DMF_ScheduledTask_ModulePrepareHardware and _ModuleD0Entry share
\* when ExecuteWhen names them.
ScheduledTask_Execute(op, next) ==
    \E callbackResult \in ScheduledTask_Result_Type :
      LET enabled == [moduleContext EXCEPT !.DisableRetries = FALSE]
          work == ScheduledTask_ClientWorkDo(enabled, Timer, DmfModuleRundown, callbackResult)
      IN  IF moduleConfig.ExecutionMode = "Deferred"
          THEN /\ moduleContext' = [enabled EXCEPT !.TimerIsStarted = TRUE]
               /\ Timer' = IF moduleContext.TimerIsStarted THEN Timer ELSE "pending"
               /\ power' = next
               /\ last' = [NoStep EXCEPT !.op = op, !.status = "STATUS_SUCCESS"]
          ELSE /\ moduleContext' = work.moduleContext
               /\ Timer' = work.Timer
               /\ power' = IF work.workResult \in {"Success", "SuccessButTryAgain"}
                           THEN next ELSE power
               /\ last' = [NoStep EXCEPT !.op = op,
                                         !.ran = work.ran,
                                         !.workResult = work.workResult,
                                         !.status = IF work.workResult \in {"Success", "SuccessButTryAgain"}
                                                    THEN "STATUS_SUCCESS"
                                                    ELSE "STATUS_UNSUCCESSFUL"]

\* The body DMF_ScheduledTask_ModuleReleaseHardware and _ModuleD0Exit share
\* when ExecuteWhen names them.
ScheduledTask_Stop(op, next) ==
    /\ moduleContext' = [moduleContext EXCEPT !.DisableRetries = TRUE]
    /\ Timer' = "stopped"
    /\ power' = next
    /\ last' = [NoStep EXCEPT !.op = op, !.status = "STATUS_SUCCESS"]

DMF_ScheduledTask_ModulePrepareHardware ==
    /\ power = "released"
    /\ cancelling # "Closed"
    /\ IF moduleConfig.ExecuteWhen = "PrepareHardware"
       THEN ScheduledTask_Execute("PrepareHardware", "Dx")
       ELSE /\ power' = "Dx"
            /\ last' = [NoStep EXCEPT !.op = "PrepareHardware", !.status = "STATUS_SUCCESS"]
            /\ UNCHANGED <<moduleContext, Timer>>
    /\ UNCHANGED <<moduleConfig, DeferredOnDemand, DmfModuleRundown, callers, cancelling,
                   acceptedCalls, requestTarget>>

DMF_ScheduledTask_ModuleReleaseHardware ==
    /\ power = "Dx"
    /\ cancelling # "Closed"
    /\ IF moduleConfig.ExecuteWhen = "PrepareHardware"
       THEN ScheduledTask_Stop("ReleaseHardware", "released")
       ELSE /\ power' = "released"
            /\ last' = [NoStep EXCEPT !.op = "ReleaseHardware", !.status = "STATUS_SUCCESS"]
            /\ UNCHANGED <<moduleContext, Timer>>
    /\ UNCHANGED <<moduleConfig, DeferredOnDemand, DmfModuleRundown, callers, cancelling,
                   acceptedCalls, requestTarget>>

DMF_ScheduledTask_ModuleD0Entry ==
    /\ power = "Dx"
    /\ cancelling # "Closed"
    /\ IF moduleConfig.ExecuteWhen = "D0Entry"
       THEN ScheduledTask_Execute("D0Entry", "D0")
       ELSE /\ power' = "D0"
            /\ last' = [NoStep EXCEPT !.op = "D0Entry", !.status = "STATUS_SUCCESS"]
            /\ UNCHANGED <<moduleContext, Timer>>
    /\ UNCHANGED <<moduleConfig, DeferredOnDemand, DmfModuleRundown, callers, cancelling,
                   acceptedCalls, requestTarget>>

DMF_ScheduledTask_ModuleD0Exit ==
    /\ power = "D0"
    /\ cancelling # "Closed"
    /\ IF moduleConfig.ExecuteWhen = "D0Entry"
       THEN ScheduledTask_Stop("D0Exit", "Dx")
       ELSE /\ power' = "Dx"
            /\ last' = [NoStep EXCEPT !.op = "D0Exit", !.status = "STATUS_SUCCESS"]
            /\ UNCHANGED <<moduleContext, Timer>>
    /\ UNCHANGED <<moduleConfig, DeferredOnDemand, DmfModuleRundown, callers, cancelling,
                   acceptedCalls, requestTarget>>

\* DMF_ScheduledTask_ExecuteNow: the Client's callback is called directly.
DMF_ScheduledTask_ExecuteNow ==
    /\ MethodAllowed
    /\ \E callbackResult \in ScheduledTask_Result_Type :
         last' = [NoStep EXCEPT !.op = "ExecuteNow", !.ran = TRUE,
                                !.workResult = callbackResult]
    /\ UNCHANGED <<moduleConfig, moduleContext, Timer, DeferredOnDemand, DmfModuleRundown,
                   power, callers, cancelling, acceptedCalls, requestTarget>>

\* The InterlockedIncrement that begins DMF_ScheduledTask_ExecuteNowDeferred
\* and _ExecuteNowDeferredEx: a caller that does not read 1 returns at once.
ScheduledTask_Increment(op, kind, context) ==
    /\ MethodAllowed
    /\ moduleContext.NumberOfPendingCalls < MaxPendingCalls
    /\ Len(callers) < MaxCallers
    /\ moduleContext' = [moduleContext EXCEPT !.NumberOfPendingCalls = @ + 1]
    /\ IF moduleContext.NumberOfPendingCalls + 1 = 1
       THEN /\ callers' = Append(callers, [kind |-> kind, CallbackContext |-> context,
                                           pc |-> "incremented"])
            /\ acceptedCalls' = acceptedCalls
            /\ last' = [NoStep EXCEPT !.op = op,
                                      !.assertion = (kind = "Ex") =>
                                          moduleContext.OnDemandCallbackContext = "NULL"]
       ELSE /\ callers' = callers
            /\ acceptedCalls' = Append(acceptedCalls, kind)
            /\ last' = [NoStep EXCEPT !.op = op, !.status = "STATUS_SUCCESS",
                                      !.assertion = (kind = "Ex") =>
                                          moduleContext.OnDemandCallbackContext = "NULL"]
    /\ UNCHANGED <<moduleConfig, Timer, DeferredOnDemand, DmfModuleRundown, power,
                   cancelling, requestTarget>>

DMF_ScheduledTask_ExecuteNowDeferred ==
    \E context \in CallbackContexts :
      ScheduledTask_Increment("ExecuteNowDeferred", "Legacy", context)

DMF_ScheduledTask_ExecuteNowDeferredEx ==
    ScheduledTask_Increment("ExecuteNowDeferredEx", "Ex", "NULL")

\* The caller that read 1 takes the rundown reference and enqueues the
\* workitem, or is refused.
DMF_ScheduledTask_ExecuteNowDeferred_Enqueue ==
    \E i \in 1..Len(callers) :
      /\ callers[i].pc = "incremented"
      /\ IF DMF_Rundown_Reference(DmfModuleRundown)
         THEN /\ moduleContext' = [moduleContext EXCEPT
                                      !.OnDemandCallbackContext = callers[i].CallbackContext]
              /\ DeferredOnDemand' = [DeferredOnDemand EXCEPT !.queued = TRUE]
              /\ callers' = RemoveAt(callers, i)
              /\ acceptedCalls' = Append(acceptedCalls, callers[i].kind)
              /\ last' = [NoStep EXCEPT !.op = "Enqueue", !.status = "STATUS_SUCCESS"]
         ELSE /\ callers' = [callers EXCEPT ![i].pc = "refused"]
              /\ last' = [NoStep EXCEPT !.op = "Enqueue"]
              /\ UNCHANGED <<moduleContext, DeferredOnDemand, acceptedCalls>>
      /\ UNCHANGED <<moduleConfig, Timer, DmfModuleRundown, power, cancelling, requestTarget>>

\* The refused caller's InterlockedDecrement and return.
DMF_ScheduledTask_ExecuteNowDeferred_Refused ==
    \E i \in 1..Len(callers) :
      /\ callers[i].pc = "refused"
      /\ moduleContext' = [moduleContext EXCEPT !.NumberOfPendingCalls = @ - 1]
      /\ callers' = RemoveAt(callers, i)
      /\ last' = [NoStep EXCEPT !.op = "Refused", !.status = "STATUS_UNSUCCESSFUL"]
      /\ UNCHANGED <<moduleConfig, Timer, DeferredOnDemand, DmfModuleRundown, power,
                     cancelling, acceptedCalls, requestTarget>>

\* DMF_ScheduledTask_Cancel, first step: DMF_Rundown_EndAndWait.
DMF_ScheduledTask_Cancel ==
    /\ MethodAllowed
    /\ cancelling = "none"
    /\ DmfModuleRundown = "started"
    /\ DmfModuleRundown' = "ended"
    /\ cancelling' = "Cancel"
    /\ last' = [NoStep EXCEPT !.op = "EndAndWait"]
    /\ UNCHANGED <<moduleConfig, moduleContext, Timer, DeferredOnDemand, power, callers,
                   acceptedCalls, requestTarget>>

\* DMF_ScheduledTask_Close calls DMF_ScheduledTask_Cancel; the Client has no
\* Method in progress when the Module closes.
DMF_ScheduledTask_Close ==
    /\ cancelling = "none"
    /\ callers = <<>>
    /\ DmfModuleRundown' = "ended"
    /\ cancelling' = "Close"
    /\ last' = [NoStep EXCEPT !.op = "EndAndWait"]
    /\ UNCHANGED <<moduleConfig, moduleContext, Timer, DeferredOnDemand, power, callers,
                   acceptedCalls, requestTarget>>

\* The rest of DMF_ScheduledTask_Cancel, once WdfWorkItemFlush returns: the
\* assertion, WdfTimerStop and TimerIsStarted; in Close the same assertion
\* follows.
DMF_ScheduledTask_Cancel_Flush ==
    /\ cancelling \in {"Cancel", "Close"}
    /\ ~DeferredOnDemand.queued
    /\ ~DeferredOnDemand.running
    /\ moduleContext' = [moduleContext EXCEPT !.TimerIsStarted = FALSE]
    /\ Timer' = "stopped"
    /\ cancelling' = IF cancelling = "Close" THEN "Closed" ELSE "none"
    /\ last' = [NoStep EXCEPT !.op = cancelling,
                              !.assertion = moduleContext.NumberOfPendingCalls = 0]
    /\ UNCHANGED <<moduleConfig, DeferredOnDemand, DmfModuleRundown, power, callers,
                   acceptedCalls, requestTarget>>

\* DMF_ScheduledTask_Restart: DMF_Rundown_Start after a Cancel.
DMF_ScheduledTask_Restart ==
    /\ MethodAllowed
    /\ cancelling = "none"
    /\ DmfModuleRundown = "ended"
    /\ DmfModuleRundown' = "started"
    /\ last' = [NoStep EXCEPT !.op = "Restart"]
    /\ UNCHANGED <<moduleConfig, moduleContext, Timer, DeferredOnDemand, power, callers,
                   cancelling, acceptedCalls, requestTarget>>

InitScheduledTask ==
    /\ RequestTarget_Idle
    /\ \E config \in ScheduledTask_Configurations : DMF_ScheduledTask_Open(config)

NextScheduledTask ==
    \/ ScheduledTask_TimerHandler
    \/ ScheduledTask_DeferredHandlerOnDemand
    \/ DMF_ScheduledTask_ModulePrepareHardware
    \/ DMF_ScheduledTask_ModuleReleaseHardware
    \/ DMF_ScheduledTask_ModuleD0Entry
    \/ DMF_ScheduledTask_ModuleD0Exit
    \/ DMF_ScheduledTask_ExecuteNow
    \/ DMF_ScheduledTask_ExecuteNowDeferred
    \/ DMF_ScheduledTask_ExecuteNowDeferredEx
    \/ DMF_ScheduledTask_ExecuteNowDeferred_Enqueue
    \/ DMF_ScheduledTask_ExecuteNowDeferred_Refused
    \/ DMF_ScheduledTask_Cancel
    \/ DMF_ScheduledTask_Cancel_Flush
    \/ DMF_ScheduledTask_Close
    \/ DMF_ScheduledTask_Restart

SpecScheduledTask == InitScheduledTask /\ [][NextScheduledTask]_vars


\* A handler iteration that executed the Client's callback for the accepted
\* call it matched.
OnDemandIteration(kind) ==
    /\ last'.op = "DeferredHandlerOnDemand"
    /\ last'.ran
    /\ last'.matched = kind

\* The Client's return value is honored: Success sets WorkIsCompleted, and a
\* try-again result restarts the retry timer (when retries are enabled and the
\* rundown is open, as ScheduledTask_TimerRestart requires).
ReturnValueHonored ==
    /\ last'.workResult = "Success" => moduleContext'.WorkIsCompleted
    /\ (/\ last'.workResult \in {"SuccessButTryAgain", "FailButTryAgain"}
        /\ ~moduleContext.DisableRetries
        /\ DMF_Rundown_Reference(DmfModuleRundown))
       => Timer' = "pending" /\ moduleContext'.TimerIsStarted

\* The Client's return value is ignored: the flags and the timer stay as they were.
ReturnValueIgnored ==
    /\ moduleContext'.WorkIsCompleted = moduleContext.WorkIsCompleted
    /\ moduleContext'.TimerIsStarted = moduleContext.TimerIsStarted
    /\ Timer' = Timer

\* C36: the on-demand workitem runs the Client's callback for a call of
\* DMF_ScheduledTask_ExecuteNowDeferred without honoring its return value
\* (WorkIsCompleted is not set and the retry timer is not restarted, whatever
\* it returns), and for a call of DMF_ScheduledTask_ExecuteNowDeferredEx it
\* honors it (Success sets WorkIsCompleted, SuccessButTryAgain and
\* FailButTryAgain restart the timer).
C36_LegacyIgnoresExHonors ==
    [][/\ OnDemandIteration("Legacy") => ReturnValueIgnored
       /\ OnDemandIteration("Ex") => ReturnValueHonored]_vars


\* C37: WorkIsCompleted is write-once: once ScheduledTask_ClientWorkDo has set
\* it, it is never cleared, and from then on no step executes the Client's
\* callback again, through any entry point (timer handler,
\* D0Entry/PrepareHardware, ExecuteNow, ExecuteNowDeferred, ExecuteNowDeferredEx).
C37_WorkIsCompletedWriteOnce ==
    [][moduleContext.WorkIsCompleted
         => moduleContext'.WorkIsCompleted /\ ~last'.ran]_vars


\* The on-demand workitem is enqueued or its handler is running.
WorkitemActive == DeferredOnDemand.queued \/ DeferredOnDemand.running

\* C38: every ExecuteNowDeferred / ExecuteNowDeferredEx call that returned
\* STATUS_SUCCESS is matched by a later iteration of the on-demand handler
\* loop: whenever no call is still between its increment and its return, a
\* non-zero NumberOfPendingCalls or an accepted call not yet matched implies
\* that the workitem is enqueued or running, also when calls race with Cancel
\* and a later Restart.
C38_PendingCallsHaveWorkitem ==
    (/\ callers = <<>>
     /\ moduleContext.NumberOfPendingCalls > 0 \/ acceptedCalls # <<>>)
    => WorkitemActive


\* C39: the assertion of DMF_ScheduledTask_Cancel (and of Close after it) holds
\* whenever it is evaluated: after the rundown has ended and the on-demand
\* workitem was flushed, NumberOfPendingCalls is 0, for every interleaving
\* with concurrent ExecuteNowDeferred / ExecuteNowDeferredEx calls.
C39_CancelAssertionHolds ==
    last.op \in {"Cancel", "Close"} => last.assertion


-----------------------------------------------------------------------------
\* A task executed at D0Entry in deferred mode, across power transitions.

InitResume ==
    /\ RequestTarget_Idle
    /\ DMF_ScheduledTask_Open([ExecuteWhen |-> "D0Entry", ExecutionMode |-> "Deferred"])

\* A started WDFTIMER expires and the framework runs its callback.
FairnessResume == WF_vars(ScheduledTask_TimerHandler)

SpecResume == InitResume /\ [][NextScheduledTask]_vars /\ FairnessResume

\* DMF_ScheduledTask_ModuleD0Entry has returned and the work is not completed.
ResumedWithWorkToDo ==
    /\ last.op = "D0Entry"
    /\ power = "D0"
    /\ ~moduleContext.WorkIsCompleted

\* The timer handler has run, or the device left D0 again, or the Client
\* cancelled the task or closed the Module.
AttemptedOrStopped == last.op \in {"TimerHandler", "D0Exit", "Cancel", "Close"}

\* C40: with ExecuteWhen = D0Entry and deferred execution, while the work is
\* not completed, the D0Entry that follows a D0Exit starts the timer again, so
\* the task is eventually attempted again after resume (unless the device
\* leaves D0 again or the task is cancelled first), also when D0Exit happened
\* while a timer was pending.
C40_AttemptedAgainAfterResume == ResumedWithWorkToDo ~> AttemptedOrStopped

====
